---- MODULE Spec2Model ----
(***************************************************************************)
(* Model of the map-interaction and incident-merge core of the Manitoba    *)
(* dashboard: pages/home_zoom_best_so_far.py (viewport state and render    *)
(* cycle), pages/report_incidents.py (upload parsing and merging) and      *)
(* utils/utils.py (geometry helpers).                                      *)
(*                                                                         *)
(* Numbers.  Latitudes and longitudes are integers in units of 0.0001      *)
(* degree, so 0.01 degree is 100, 0.05 degree is 500 and the default       *)
(* center [53.7609, -98.8139] is <<537609, -988139>>.  Feature vertices    *)
(* are whole hundredths of a degree, which makes range * 0.1 and the       *)
(* midpoint of a padded box exact integers.  A coordinate pair of a ring   *)
(* is <<lon, lat>> as in GeoJSON; a point of the viewport is <<lat, lon>>. *)
(*                                                                         *)
(* Optional values.  Python's None is the empty tuple and a present value  *)
(* v is the one-element tuple <<v>>.                                       *)
(***************************************************************************)
EXTENDS Integers, Sequences, FiniteSets, TLC

VARIABLES
    map_state,            \* st.session_state.map_state
    pc,                   \* position of the home page script
    event,                \* what started the current script run
    last_object_clicked,  \* the map component's sticky last clicked object
    inputs,               \* the widget values and feature lists of this run
    fit,                  \* the fit_bounds call made on the map of this run
    map_data,             \* what st_folium returned in this run
    clicked,              \* what find_clicked_feature returned in this run
    before_click,         \* the map state of this run before its click handling
    op,                   \* the last viewport transition applied directly
    incidents_data,       \* st.session_state.incidents_data
    incidents_source,     \* st.session_state.incidents_source
    upload_history,       \* st.session_state.upload_history (None: key absent)
    upload,               \* the upload handled last on the report page
    call                  \* the last direct call of a pure function

vars == <<map_state, pc, event, last_object_clicked, inputs, fit, map_data,
          clicked, before_click, op, incidents_data, incidents_source, upload_history,
          upload, call>>

None == <<>>
Some(v) == <<v>>
Max2(a, b) == IF a >= b THEN a ELSE b
Min2(a, b) == IF a <= b THEN a ELSE b

RECURSIVE SeqMax(_)
SeqMax(s) == IF Len(s) = 1 THEN s[1] ELSE Max2(s[1], SeqMax(Tail(s)))
RECURSIVE SeqMin(_)
SeqMin(s) == IF Len(s) = 1 THEN s[1] ELSE Min2(s[1], SeqMin(Tail(s)))
RECURSIVE SeqSum(_)
SeqSum(s) == IF s = <<>> THEN 0 ELSE s[1] + SeqSum(Tail(s))
RECURSIVE Flatten(_)
Flatten(ss) == IF ss = <<>> THEN <<>> ELSE ss[1] \o Flatten(Tail(ss))

(***************************************************************************)
(* Geometries and features.                                                *)
(*                                                                         *)
(* A geometry is [type, polys].  polys is always a sequence of polygons,   *)
(* each a sequence of rings: for a Polygon it holds the one polygon whose  *)
(* rings are the GeoJSON "coordinates"; for a MultiPolygon it is the       *)
(* GeoJSON "coordinates".  NoGeometry is a missing or empty ({}) geometry,  *)
(* NullGeometry a geometry that is present and null; both are falsy in     *)
(* Python.  A geometry of another type is kept with empty coordinates.     *)
(* A feature is [has_name, name, type, geometry]: has_name is FALSE when   *)
(* the properties carry no "name" key; type is "" when they carry no       *)
(* "type" key.                                                             *)
(***************************************************************************)
NoGeometry == [type |-> "", polys |-> <<>>]
NullGeometry == [type |-> "null", polys |-> <<>>]
Polygon(rings) == [type |-> "Polygon", polys |-> <<rings>>]
MultiPolygon(polygons) == [type |-> "MultiPolygon", polys |-> polygons]
PointGeometry == [type |-> "Point", polys |-> <<>>]

Truthy(geom) == geom \notin {NoGeometry, NullGeometry}

Feature(n, t, g) == [has_name |-> TRUE, name |-> n, type |-> t, geometry |-> g]
Nameless(t, g) == [has_name |-> FALSE, name |-> "", type |-> t, geometry |-> g]

\* utils.iter_coords: the (lon, lat) pairs of a Polygon or MultiPolygon in
\* document order; nothing for any other geometry type.
iter_coords(geom) ==
    IF geom.type = "Polygon" THEN Flatten(geom.polys[1])
    ELSE IF geom.type = "MultiPolygon" THEN Flatten(Flatten(geom.polys))
    ELSE <<>>

\* iter_coords starts with geom.get("type"), which raises AttributeError
\* when geom is None
iter_coords_raises(geom) == geom = NullGeometry

Lons(coords) == [i \in 1..Len(coords) |-> coords[i][1]]
Lats(coords) == [i \in 1..Len(coords) |-> coords[i][2]]

\* utils.get_bounds fallback box and utils.centroid_of_feature fallback point
FallbackBounds == <<<<480000, -1020000>>, <<605000, -880000>>>>
FallbackCentroid == <<500000, -970000>>

\* a variant that returns [[west, south], [east, north]]
get_bounds_lon_first(features) ==
    LET cs == Flatten([i \in 1..Len(features) |->
                  IF Truthy(features[i].geometry) THEN iter_coords(features[i].geometry)
                  ELSE <<>>])
    IN IF cs = <<>> THEN <<<<480000, -1020000>>, <<605000, -880000>>>>
       ELSE <<<<SeqMin(Lons(cs)), SeqMin(Lats(cs))>>,
              <<SeqMax(Lons(cs)), SeqMax(Lats(cs))>>>>

\* utils.get_bounds: all coordinates of all features with a truthy geometry
BoundsCoords(features) ==
    Flatten([i \in 1..Len(features) |->
        IF Truthy(features[i].geometry) THEN iter_coords(features[i].geometry)
        ELSE <<>>])

get_bounds(features) ==
    LET cs == BoundsCoords(features) IN
    IF cs = <<>> THEN FallbackBounds
    ELSE <<<<SeqMin(Lats(cs)), SeqMin(Lons(cs))>>,
           <<SeqMax(Lats(cs)), SeqMax(Lons(cs))>>>>

\* get_bounds skips every feature whose geometry is falsy before it calls
\* iter_coords
get_bounds_raises(features) ==
    \E i \in 1..Len(features) :
        Truthy(features[i].geometry) /\ iter_coords_raises(features[i].geometry)

\* centroid_of_feature passes feature.get("geometry", {}) to iter_coords
\* unguarded: a geometry that is present and null raises
centroid_of_feature_raises(feature) == iter_coords_raises(feature.geometry)

\* utils.centroid_of_feature: (lat, lon) vertex average.  The division is
\* exact for every feature of the model (CentroidsExact below).
centroid_of_feature(feature) ==
    LET cs == iter_coords(feature.geometry) IN
    IF cs # <<>> THEN <<SeqSum(Lats(cs)) \div Len(cs), SeqSum(Lons(cs)) \div Len(cs)>>
    ELSE FallbackCentroid

\* a variant without the "or 0.01"
PaddingWithoutFallback(range) == range \div 10

\* `range * 0.1 or 0.01`: Python's `or` replaces the product only when it
\* is 0.0, that is when the range is 0.
PaddingOf(range) == IF (range \div 10) # 0 THEN range \div 10 ELSE 100

\* home_zoom_best_so_far.calculate_feature_bounds: None or [[s, w], [n, e]]
calculate_feature_bounds(feature) ==
    LET geom == feature.geometry
        cs == iter_coords(geom)
    IN  IF ~Truthy(geom) THEN None
        ELSE IF cs = <<>> THEN None
        ELSE LET lats == Lats(cs)
                 lons == Lons(cs)
                 lat_padding == PaddingOf(SeqMax(lats) - SeqMin(lats))
                 lon_padding == PaddingOf(SeqMax(lons) - SeqMin(lons))
             IN Some(<<<<SeqMin(lats) - lat_padding, SeqMin(lons) - lon_padding>>,
                       <<SeqMax(lats) + lat_padding, SeqMax(lons) + lon_padding>>>>)

(***************************************************************************)
(* Viewport state (home_zoom_best_so_far.py, "Map State Management").      *)
(***************************************************************************)
DefaultCenter == <<537609, -988139>>
DefaultZoom == 5

\* initialize_map_state: the value stored when the session has no map_state
initialize_map_state ==
    [center |-> DefaultCenter,
     zoom |-> DefaultZoom,
     bounds |-> None,
     last_clicked_feature |-> None,
     zoom_to_feature |-> FALSE]

\* a variant that keeps the focused feature
ResetKeepsFeature ==
    [center |-> <<537609, -988139>>,
     zoom |-> 5,
     bounds |-> None,
     last_clicked_feature |-> map_state.last_clicked_feature,
     zoom_to_feature |-> FALSE]

\* The value assigned by the "Reset Map View" button
ResetMapState ==
    [center |-> <<537609, -988139>>,
     zoom |-> 5,
     bounds |-> None,
     last_clicked_feature |-> None,
     zoom_to_feature |-> FALSE]

\* What st_folium returns: a falsy value (None or an empty dict), or a dict
\* that may carry "center" with "zoom" and "last_object_clicked".
NoMapData ==
    [truthy |-> FALSE, has_center |-> FALSE, center |-> <<0, 0>>, zoom |-> 0,
     last_object_clicked |-> None]

MapData(has_center, center, zoom, click) ==
    [truthy |-> TRUE, has_center |-> has_center,
     center |-> IF has_center THEN center ELSE <<0, 0>>,
     zoom |-> IF has_center THEN zoom ELSE 0,
     last_object_clicked |-> click]

\* a variant that also forgets the focused feature
update_forgets_feature(ms, md) ==
    IF md.truthy /\ md.has_center
    THEN [ms EXCEPT !.center = md.center,
                    !.zoom = md.zoom,
                    !.bounds = None,
                    !.last_clicked_feature = None,
                    !.zoom_to_feature = FALSE]
    ELSE ms

\* a variant that clears the bounds and leaves the pending flag
update_keeps_pending_flag(ms, md) ==
    IF md.truthy /\ md.has_center
    THEN [ms EXCEPT !.center = md.center,
                    !.zoom = md.zoom,
                    !.bounds = None]
    ELSE ms

\* update_map_state_from_interaction
update_map_state_from_interaction(ms, md) ==
    IF md.truthy /\ md.has_center
    THEN [ms EXCEPT !.center = md.center,
                    !.zoom = md.zoom,
                    !.bounds = None,
                    !.zoom_to_feature = FALSE]
    ELSE ms

\* feature.get('properties', {}).get('name', f'Unknown {feature_type}')
FeatureName(feature, feature_type) ==
    IF feature.has_name THEN feature.name ELSE "Unknown " \o feature_type

\* a variant that centers on the south-west corner of the bounds
zoom_to_corner(ms, feature, feature_type) ==
    LET bounds == calculate_feature_bounds(feature) IN
    IF bounds # None
    THEN [ms EXCEPT !.bounds = bounds,
                    !.zoom_to_feature = TRUE,
                    !.center = bounds[1][1],
                    !.last_clicked_feature =
                        Some([name |-> FeatureName(feature, feature_type),
                              type |-> feature_type])]
    ELSE ms

\* zoom_to_feature
zoom_to_feature(ms, feature, feature_type) ==
    LET bounds == calculate_feature_bounds(feature) IN
    IF bounds # None
    THEN LET b == bounds[1]
             center_lat == (b[1][1] + b[2][1]) \div 2
             center_lon == (b[1][2] + b[2][2]) \div 2
         IN [ms EXCEPT !.bounds = bounds,
                       !.zoom_to_feature = TRUE,
                       !.center = <<center_lat, center_lon>>,
                       !.last_clicked_feature =
                           Some([name |-> FeatureName(feature, feature_type),
                                 type |-> feature_type])]
    ELSE ms

(***************************************************************************)
(* Click resolution.  Distances are compared by their squares; inf is      *)
(* None.                                                                   *)
(***************************************************************************)
Dist2(lat, lng, c) == (lat - c[1]) * (lat - c[1]) + (lng - c[2]) * (lng - c[2])

\* a variant whose bounding-box test leaves the borders out
point_in_polygon_bounds_open_box(lat, lng, feature) ==
    LET geom == feature.geometry IN
    IF ~Truthy(geom) THEN [is_match |-> FALSE, distance2 |-> None]
    ELSE
      LET d2 == Dist2(lat, lng, centroid_of_feature(feature))
          cs == iter_coords(geom)
      IN IF cs = <<>> THEN [is_match |-> FALSE, distance2 |-> Some(d2)]
         ELSE
           LET lats == Lats(cs)
               lons == Lons(cs)
               max_range == Max2(SeqMax(lats) - SeqMin(lats), SeqMax(lons) - SeqMin(lons))
               near == Max2(500, max_range \div 2)
           IN [is_match |-> \/ /\ SeqMin(lats) < lat /\ lat < SeqMax(lats)
                               /\ SeqMin(lons) < lng /\ lng < SeqMax(lons)
                            \/ d2 < near * near,
               distance2 |-> Some(d2)]

\* find_clicked_feature.point_in_polygon_bounds: (is_match, distance)
point_in_polygon_bounds(lat, lng, feature) ==
    LET geom == feature.geometry IN
    IF ~Truthy(geom) THEN [is_match |-> FALSE, distance2 |-> None]
    ELSE
      LET d2 == Dist2(lat, lng, centroid_of_feature(feature))
          cs == iter_coords(geom)
      IN IF cs = <<>> THEN [is_match |-> FALSE, distance2 |-> Some(d2)]
         ELSE
           LET lats == Lats(cs)
               lons == Lons(cs)
               lat_range == SeqMax(lats) - SeqMin(lats)
               lon_range == SeqMax(lons) - SeqMin(lons)
               max_range == Max2(lat_range, lon_range)
               \* max(0.05, max_range * 0.5); ranges are even
               near == Max2(500, max_range \div 2)
           IN IF /\ SeqMin(lats) <= lat /\ lat <= SeqMax(lats)
                 /\ SeqMin(lons) <= lng /\ lng <= SeqMax(lons)
              THEN [is_match |-> TRUE, distance2 |-> Some(d2)]
              ELSE IF d2 < near * near
              THEN [is_match |-> TRUE, distance2 |-> Some(d2)]
              ELSE [is_match |-> FALSE, distance2 |-> Some(d2)]

\* the list the loop of find_clicked_feature walks: (feature, feature_type)
Tagged(features, feature_type) ==
    [i \in 1..Len(features) |-> <<features[i], feature_type>>]

\* a variant that walks the floods first
all_features_floods_first(muni_features, wf_features, fl_features) ==
    Tagged(fl_features, "flood") \o Tagged(muni_features, "municipality")
        \o Tagged(wf_features, "wildfire")

all_features(muni_features, wf_features, fl_features) ==
    Tagged(muni_features, "municipality") \o Tagged(wf_features, "wildfire")
        \o Tagged(fl_features, "flood")

RECURSIVE BestFeature(_, _, _, _, _)
BestFeature(items, lat, lng, best_feature, best_distance) ==
    IF items = <<>> THEN best_feature
    ELSE LET r == point_in_polygon_bounds(lat, lng, items[1][1])
             better == /\ r.is_match
                       /\ \/ best_distance = None
                          \/ r.distance2[1] < best_distance[1]
         IN IF better
            THEN BestFeature(Tail(items), lat, lng, Some(items[1]), r.distance2)
            ELSE BestFeature(Tail(items), lat, lng, best_feature, best_distance)

\* a variant whose comparison is <=, so that the last of several equally
\* distant matches wins
RECURSIVE BestFeatureLastWins(_, _, _, _, _)
BestFeatureLastWins(items, lat, lng, best_feature, best_distance) ==
    IF items = <<>> THEN best_feature
    ELSE LET r == point_in_polygon_bounds(lat, lng, items[1][1])
             better == /\ r.is_match
                       /\ \/ best_distance = None
                          \/ r.distance2[1] <= best_distance[1]
         IN IF better
            THEN BestFeatureLastWins(Tail(items), lat, lng, Some(items[1]), r.distance2)
            ELSE BestFeatureLastWins(Tail(items), lat, lng, best_feature, best_distance)

find_clicked_feature_last_wins(clicked_lat, clicked_lng, muni_features, wf_features, fl_features) ==
    BestFeatureLastWins(all_features(muni_features, wf_features, fl_features),
                        clicked_lat, clicked_lng, None, None)

\* find_clicked_feature: None or (feature, feature_type)
find_clicked_feature(clicked_lat, clicked_lng, muni_features, wf_features, fl_features) ==
    BestFeature(all_features(muni_features, wf_features, fl_features),
                clicked_lat, clicked_lng, None, None)

(***************************************************************************)
(* The data of the model.  Vertices are <<lon, lat>>.                      *)
(***************************************************************************)
Winnipeg ==
    Feature("Winnipeg", "",
        Polygon(<< << <<-972000, 498000>>, <<-970000, 498000>>,
                      <<-970000, 500000>>, <<-972000, 500000>> >> >>))

\* a municipality without a geometry
Ghost == Feature("Ghost", "", NoGeometry)

\* a small wildfire (0.02 degree wide) inside Winnipeg's bounding box
Fire1 ==
    Feature("Fire1", "wildfire",
        Polygon(<< << <<-971200, 499000>>, <<-971000, 499000>>,
                      <<-971000, 499200>>, <<-971200, 499200>> >> >>))

\* a point-like wildfire without a name
Spark ==
    Nameless("wildfire",
        Polygon(<< << <<-965000, 505000>>, <<-965000, 505000>> >> >>))

Flood1 ==
    Feature("Flood1", "flood",
        MultiPolygon(<< << << <<-960000, 495000>>, <<-959000, 495000>> >> >>,
                        << << <<-960000, 496000>>, <<-959000, 496000>> >> >> >>))

\* a feature whose geometry is of a type iter_coords does not know
Marker == Feature("Marker", "wildfire", PointGeometry)

AllFeatures == {Winnipeg, Ghost, Fire1, Spark, Flood1, Marker}

\* every vertex is a whole hundredth of a degree and every vertex average
\* is a whole unit, so the integer arithmetic above is exact
DataExact ==
    \A f \in AllFeatures :
        LET cs == iter_coords(f.geometry) IN
        /\ \A i \in 1..Len(cs) : cs[i][1] % 100 = 0 /\ cs[i][2] % 100 = 0
        /\ cs # <<>> => /\ SeqSum(Lats(cs)) % Len(cs) = 0
                        /\ SeqSum(Lons(cs)) % Len(cs) = 0

\* the lists the home page draws from (municipality file, default incidents)
MuniFeatures == <<Winnipeg>>
WildfireFeatures == <<Fire1>>
FloodFeatures == <<Flood1>>

\* manitoba_boundary.total_bounds as [[south, west], [north, east]]
ManitobaExtent == <<<<489900, -1020000>>, <<600000, -889000>>>>

\* the points the user can click: Fire1's centroid, a point of Winnipeg
\* away from Fire1, Flood1's centroid, and open country
ClickPoints ==
    {<<499100, -971100>>, <<498100, -970100>>, <<495500, -959500>>,
     <<520000, -950000>>}

\* the views the map component can report
ReportedCenters == {<<510000, -960000>>}
ReportedZooms == {9}

\* the order-preserving sub-lists of a list: what a filter can leave visible
RECURSIVE SubSeqs(_)
SubSeqs(s) ==
    IF s = <<>> THEN {<<>>}
    ELSE LET rest == SubSeqs(Tail(s)) IN
         rest \cup {<<s[1]>> \o r : r \in rest}

InputValues ==
    [boundary : BOOLEAN, show_mask : BOOLEAN, show_wf : BOOLEAN, show_fl : BOOLEAN,
     muni_filtered : SubSeqs(MuniFeatures),
     wf_features : SubSeqs(WildfireFeatures),
     fl_features : SubSeqs(FloodFeatures)]

\* the widgets' defaults: everything selected and shown
DefaultInputs(boundary) ==
    [boundary |-> boundary, show_mask |-> TRUE, show_wf |-> TRUE, show_fl |-> TRUE,
     muni_filtered |-> MuniFeatures,
     wf_features |-> WildfireFeatures,
     fl_features |-> FloodFeatures]

(***************************************************************************)
(* The home page script (home_page).                                       *)
(***************************************************************************)
\* a variant whose fit branch also drops the bounds it applied
FitDropsBounds(ms, inp) ==
    IF ms.zoom_to_feature /\ ms.bounds # None
    THEN [fit |-> Some([target |-> "feature", box |-> ms.bounds[1]]),
          ms |-> [ms EXCEPT !.zoom_to_feature = FALSE, !.bounds = None]]
    ELSE IF inp.boundary /\ inp.show_mask /\ ms.last_clicked_feature = None
    THEN [fit |-> Some([target |-> "boundary", box |-> ManitobaExtent]), ms |-> ms]
    ELSE [fit |-> None, ms |-> ms]

\* a variant that fits to the incident lists whether or not their layers
\* are shown
FitIgnoresLayerSwitches(ms, inp) ==
    IF ms.zoom_to_feature /\ ms.bounds # None
    THEN [fit |-> Some([target |-> "feature", box |-> ms.bounds[1]]),
          ms |-> [ms EXCEPT !.zoom_to_feature = FALSE]]
    ELSE IF inp.boundary /\ inp.show_mask /\ ms.last_clicked_feature = None
    THEN [fit |-> Some([target |-> "boundary", box |-> ManitobaExtent]), ms |-> ms]
    ELSE IF ms.last_clicked_feature = None
    THEN LET feats_for_bounds ==
                 IF inp.muni_filtered # <<>> THEN inp.muni_filtered
                 ELSE IF inp.wf_features # <<>> THEN inp.wf_features
                 ELSE IF inp.fl_features # <<>> THEN inp.fl_features
                 ELSE <<>>
         IN IF feats_for_bounds # <<>>
            THEN [fit |-> Some([target |-> "data", box |-> get_bounds(feats_for_bounds)]),
                  ms |-> ms]
            ELSE [fit |-> None, ms |-> ms]
    ELSE [fit |-> None, ms |-> ms]

\* "Apply bounds if zooming to feature": the fit_bounds call, if any, and
\* the map state after it
FitDecision(ms, inp) ==
    IF ms.zoom_to_feature /\ ms.bounds # None
    THEN [fit |-> Some([target |-> "feature", box |-> ms.bounds[1]]),
          ms |-> [ms EXCEPT !.zoom_to_feature = FALSE]]
    ELSE IF inp.boundary /\ inp.show_mask /\ ms.last_clicked_feature = None
    THEN [fit |-> Some([target |-> "boundary", box |-> ManitobaExtent]), ms |-> ms]
    ELSE IF ms.last_clicked_feature = None
    THEN LET feats_for_bounds ==
                 IF inp.muni_filtered # <<>> THEN inp.muni_filtered
                 ELSE IF inp.show_wf /\ inp.wf_features # <<>> THEN inp.wf_features
                 ELSE IF inp.show_fl /\ inp.fl_features # <<>> THEN inp.fl_features
                 ELSE <<>>
         IN IF feats_for_bounds # <<>>
            THEN [fit |-> Some([target |-> "data", box |-> get_bounds(feats_for_bounds)]),
                  ms |-> ms]
            ELSE [fit |-> None, ms |-> ms]
    ELSE [fit |-> None, ms |-> ms]

\* what st_folium can return in a run started by ev while the component's
\* last clicked object is loc: a user pan/zoom is reported with a center, a
\* user click with the clicked object; the component may also report its
\* view and its last clicked object again in any other run
MapDataChoices(ev, loc) ==
    {md \in {NoMapData} \cup
            {MapData(hc, c, z, ck) : hc \in BOOLEAN, c \in ReportedCenters,
                                     z \in ReportedZooms, ck \in {None, loc}} :
        /\ ev = "pan" => md.truthy /\ md.has_center
        /\ ev = "click" => md.truthy /\ md.last_object_clicked = loc}

\* a variant in which a click that finds nothing drops the focus
HandleInteractionUnfocusOnMiss(ms, md, inp) ==
    LET ms1 == IF md.truthy THEN update_map_state_from_interaction(ms, md) ELSE ms
        found == IF md.truthy /\ md.last_object_clicked # None
                 THEN find_clicked_feature(md.last_object_clicked[1][1],
                                           md.last_object_clicked[1][2],
                                           inp.muni_filtered, inp.wf_features,
                                           inp.fl_features)
                 ELSE None
    IN [ms |-> IF found # None THEN zoom_to_feature(ms1, found[1][1], found[1][2])
               ELSE IF md.truthy /\ md.last_object_clicked # None
               THEN [ms1 EXCEPT !.last_clicked_feature = None]
               ELSE ms1,
        before_click |-> ms1,
        found |-> found,
        rerun |-> found # None]

\* a variant that applies the reported view after zoom_to_feature
HandleInteractionUpdateLast(ms, md, inp) ==
    LET found == IF md.truthy /\ md.last_object_clicked # None
                 THEN find_clicked_feature(md.last_object_clicked[1][1],
                                           md.last_object_clicked[1][2],
                                           inp.muni_filtered, inp.wf_features,
                                           inp.fl_features)
                 ELSE None
        ms1 == IF found # None THEN zoom_to_feature(ms, found[1][1], found[1][2]) ELSE ms
    IN [ms |-> IF md.truthy THEN update_map_state_from_interaction(ms1, md) ELSE ms1,
        before_click |-> ms,
        found |-> found,
        rerun |-> found # None]

\* "Handle Map Interactions": the map state at the end of the run and the
\* feature found, given what st_folium returned
HandleInteraction(ms, md, inp) ==
    LET ms1 == IF md.truthy THEN update_map_state_from_interaction(ms, md) ELSE ms
        found == IF md.truthy /\ md.last_object_clicked # None
                 THEN find_clicked_feature(md.last_object_clicked[1][1],
                                           md.last_object_clicked[1][2],
                                           inp.muni_filtered, inp.wf_features,
                                           inp.fl_features)
                 ELSE None
    IN [ms |-> IF found # None THEN zoom_to_feature(ms1, found[1][1], found[1][2])
               ELSE ms1,
        before_click |-> ms1,
        found |-> found,
        rerun |-> found # None]

\* values of the variables a specification does not use
\* a feature collection held in the session or passed to the merge; a falsy
\* value (None, {}) is NoCollection
NoCollection == [present |-> FALSE, features |-> <<>>]
FeatureCollection(features) == [present |-> TRUE, features |-> features]

\* load_default_incidents: the content of data/incidents_dummy.geojson
DefaultIncidents == FeatureCollection(<<Fire1>>)

\* A decoded JSON value, by the shape the parser looks at.  features and
\* incidents are None when the key is absent, else Some([is_list, items]).
JScalar(kind, mentions_type) ==
    [kind |-> kind, mentions_type |-> mentions_type, has_type |-> FALSE, type |-> "",
     features |-> None, incidents |-> None]
JDict(has_type, type, features, incidents) ==
    [kind |-> "dict", mentions_type |-> has_type, has_type |-> has_type, type |-> type,
     features |-> features, incidents |-> incidents]
JList(items) == Some([is_list |-> TRUE, items |-> items])
JNullValue == Some([is_list |-> FALSE, items |-> <<>>])

\* one entry of the custom format's "incidents" list
Incident(has_geometry, feature) == [has_geometry |-> has_geometry, feature |-> feature]

\* an uploaded file: its name, whether json.load can decode it, the value
UploadedFile(name, decodable, data) == [name |-> name, decodable |-> decodable, data |-> data]

Session(data, source, history) ==
    [incidents_data |-> data, incidents_source |-> source, upload_history |-> history]

NoUpload ==
    [handled |-> FALSE, file |-> UploadedFile("", FALSE, JScalar("null", FALSE)),
     outcome |-> "none", merge_called |-> FALSE, message |-> "",
     new_count |-> 0, dupe_count |-> 0,
     before |-> Session(DefaultIncidents, "default", None)]

NoCall == [name |-> "none", existing |-> NoCollection, incoming |-> NoCollection,
           existing_after |-> NoCollection,
           result |-> [triple |-> FALSE, data |-> NoCollection, added |-> 0,
                       duplicates |-> 0]]

IdleOp == [name |-> "none", before |-> initialize_map_state, feature |-> Ghost,
           kind |-> "", md |-> NoMapData]

HomeUnused ==
    /\ op = IdleOp
    /\ incidents_data = DefaultIncidents
    /\ incidents_source = "default"
    /\ upload_history = None
    /\ upload = NoUpload
    /\ call = NoCall

HomeUnchanged == UNCHANGED <<op, incidents_data, incidents_source, upload_history, upload, call>>

Init ==
    /\ map_state = initialize_map_state
    /\ pc = "run"
    /\ event = "load"
    /\ last_object_clicked = None
    /\ inputs \in {DefaultInputs(b) : b \in BOOLEAN}
    /\ fit = None
    /\ map_data = NoMapData
    /\ clicked = None
    /\ before_click = initialize_map_state
    /\ HomeUnused

\* a script run from its top to the st_folium call (the Reset button is not
\* pressed in this run)
Render ==
    /\ pc = "run"
    /\ LET d == FitDecision(map_state, inputs) IN
       /\ fit' = d.fit
       /\ map_state' = d.ms
    /\ pc' = "map"
    /\ map_data' = NoMapData
    /\ before_click' = map_state'
    /\ UNCHANGED <<event, last_object_clicked, inputs, clicked>>
    /\ HomeUnchanged

\* the rest of the run: st_folium returns and the interactions are handled
HandleMap ==
    /\ pc = "map"
    /\ \E md \in MapDataChoices(event, last_object_clicked) :
         LET h == HandleInteraction(map_state, md, inputs) IN
         /\ map_data' = md
         /\ map_state' = h.ms
         /\ before_click' = h.before_click
         /\ clicked' = h.found
         /\ pc' = IF h.rerun THEN "run" ELSE "idle"
         /\ event' = IF h.rerun THEN "rerun" ELSE event
    /\ UNCHANGED <<last_object_clicked, inputs, fit>>
    /\ HomeUnchanged

\* the user pans or zooms the map
UserPanZoom ==
    /\ pc = "idle"
    /\ pc' = "run"
    /\ event' = "pan"
    /\ UNCHANGED <<map_state, last_object_clicked, inputs, fit, map_data, clicked, before_click>>
    /\ HomeUnchanged

\* the user clicks an object of the map
UserClick ==
    /\ pc = "idle"
    /\ \E p \in ClickPoints : last_object_clicked' = Some(p)
    /\ pc' = "run"
    /\ event' = "click"
    /\ UNCHANGED <<map_state, inputs, fit, map_data, clicked, before_click>>
    /\ HomeUnchanged

\* the user changes one sidebar widget: the mask or a layer checkbox, a
\* municipality filter, or the incident status filter (which decides both
\* incident lists)
FilterChange ==
    /\ pc = "idle"
    /\ \E inp \in InputValues :
         /\ inp # inputs
         /\ \/ inp = [inputs EXCEPT !.show_mask = inp.show_mask]
            \/ inp = [inputs EXCEPT !.show_wf = inp.show_wf]
            \/ inp = [inputs EXCEPT !.show_fl = inp.show_fl]
            \/ inp = [inputs EXCEPT !.muni_filtered = inp.muni_filtered]
            \/ inp = [inputs EXCEPT !.wf_features = inp.wf_features,
                                    !.fl_features = inp.fl_features]
         /\ inputs' = inp
    /\ pc' = "run"
    /\ event' = "filter"
    /\ UNCHANGED <<map_state, last_object_clicked, fit, map_data, clicked, before_click>>
    /\ HomeUnchanged

\* the user presses "Reset Map View": the run assigns the defaults and
\* calls st.rerun()
PressReset ==
    /\ pc = "idle"
    /\ map_state' = ResetMapState
    /\ pc' = "run"
    /\ event' = "reset"
    /\ UNCHANGED <<last_object_clicked, inputs, fit, map_data, clicked, before_click>>
    /\ HomeUnchanged

Next ==
    \/ Render
    \/ HandleMap
    \/ UserPanZoom
    \/ UserClick
    \/ FilterChange
    \/ PressReset

Spec == Init /\ [][Next]_vars

(***************************************************************************)
(* The viewport transitions applied directly, in any order and to any      *)
(* feature: the state machine behind the home page, without the order the  *)
(* script imposes.  op records the transition applied last and the map     *)
(* state it was applied to.                                                *)
(***************************************************************************)
FeatureKinds == {"municipality", "wildfire", "flood"}

MapDataValues ==
    {NoMapData} \cup
    {MapData(hc, c, z, ck) : hc \in BOOLEAN, c \in ReportedCenters,
                             z \in ReportedZooms,
                             ck \in {None, Some(<<499100, -971100>>)}}

OpsUnused ==
    /\ pc = "idle"
    /\ event = "load"
    /\ last_object_clicked = None
    /\ map_data = NoMapData
    /\ clicked = None
    /\ before_click = initialize_map_state
    /\ incidents_data = DefaultIncidents
    /\ incidents_source = "default"
    /\ upload_history = None
    /\ upload = NoUpload
    /\ call = NoCall

OpsUnchanged ==
    UNCHANGED <<pc, event, last_object_clicked, map_data, clicked, before_click,
                incidents_data, incidents_source, upload_history, upload, call>>

InitOps ==
    /\ map_state = initialize_map_state
    /\ op = IdleOp
    /\ inputs = DefaultInputs(TRUE)
    /\ fit = None
    /\ OpsUnused

\* update_map_state_from_interaction(map_data)
OpUpdate ==
    /\ \E md \in MapDataValues :
         /\ map_state' = update_map_state_from_interaction(map_state, md)
         /\ op' = [IdleOp EXCEPT !.name = "update", !.before = map_state, !.md = md]
    /\ UNCHANGED <<inputs, fit>>
    /\ OpsUnchanged

\* zoom_to_feature(feature, feature_type)
OpZoom ==
    /\ \E f \in AllFeatures, k \in FeatureKinds :
         /\ map_state' = zoom_to_feature(map_state, f, k)
         /\ op' = [IdleOp EXCEPT !.name = "zoom", !.before = map_state,
                                 !.feature = f, !.kind = k]
    /\ UNCHANGED <<inputs, fit>>
    /\ OpsUnchanged

\* the widget values the fit decision is tried with: the defaults with and
\* without the provincial boundary, and everything filtered out
FitInputs ==
    {DefaultInputs(TRUE), DefaultInputs(FALSE),
     [DefaultInputs(FALSE) EXCEPT !.muni_filtered = <<>>, !.wf_features = <<>>,
                                  !.fl_features = <<>>]}

\* the render-time fit decision, which consumes a pending zoom
OpFit ==
    /\ \E inp \in FitInputs :
         LET d == FitDecision(map_state, inp) IN
         /\ map_state' = d.ms
         /\ fit' = d.fit
         /\ inputs' = inp
    /\ op' = [IdleOp EXCEPT !.name = "fit", !.before = map_state]
    /\ OpsUnchanged

\* the "Reset Map View" button
OpReset ==
    /\ map_state' = ResetMapState
    /\ op' = [IdleOp EXCEPT !.name = "reset", !.before = map_state]
    /\ UNCHANGED <<inputs, fit>>
    /\ OpsUnchanged

NextOps ==
    \/ OpUpdate
    \/ OpZoom
    \/ OpFit
    \/ OpReset

SpecOps == InitOps /\ [][NextOps]_vars

(***************************************************************************)
(* Properties of the viewport transitions (SpecOps).                       *)
(***************************************************************************)
HasCoordinates(feature) == iter_coords(feature.geometry) # <<>>

\* the name shown for a feature: its "name", or the placeholder the code
\* uses when it has none
ShownName(feature, kind) ==
    IF feature.has_name THEN feature.name
    ELSE IF kind = "wildfire" THEN "Unknown wildfire"
    ELSE IF kind = "flood" THEN "Unknown flood"
    ELSE "Unknown municipality"

BoxMidpoint(box) == <<(box[1][1] + box[2][1]) \div 2, (box[1][2] + box[2][2]) \div 2>>

\* C1: for every feature f with at least one coordinate, when
\* zoom_to_feature(f, "wildfire") is followed by the fit branch of a render,
\* zoom_to_feature is false, bounds still equals the padded bounds computed
\* at click time and last_clicked_feature is {name of f, "wildfire"}.
C1_ZoomThenConsume ==
    [][(/\ op.name = "zoom" /\ op.kind = "wildfire" /\ HasCoordinates(op.feature)
        /\ op'.name = "fit")
       => /\ map_state'.zoom_to_feature = FALSE
          /\ fit' = Some([target |-> "feature", box |-> map_state.bounds[1]])
          /\ map_state'.bounds = map_state.bounds
          /\ map_state'.bounds = calculate_feature_bounds(op.feature)
          /\ map_state'.last_clicked_feature =
                 Some([name |-> ShownName(op.feature, "wildfire"), type |-> "wildfire"])]_vars

\* the fit branch has consumed the pending zoom to a wildfire
C1_Witness ==
    /\ op.name = "fit"
    /\ op.before.zoom_to_feature
    /\ op.before.last_clicked_feature = Some([name |-> "Fire1", type |-> "wildfire"])
    /\ fit # None /\ fit[1].target = "feature"
    /\ ~map_state.zoom_to_feature
    /\ map_state.bounds = calculate_feature_bounds(Fire1)

\* C7: update_map_state_from_interaction sets center and zoom to the
\* reported ones, bounds to None and zoom_to_feature to false and leaves
\* last_clicked_feature alone when the report has a center; it changes
\* nothing when the report is empty or has no center.
C7_UpdateFromInteraction ==
    [][op'.name = "update"
       => IF op'.md.truthy /\ op'.md.has_center
          THEN map_state' = [center |-> op'.md.center,
                             zoom |-> op'.md.zoom,
                             bounds |-> None,
                             zoom_to_feature |-> FALSE,
                             last_clicked_feature |-> map_state.last_clicked_feature]
          ELSE map_state' = map_state]_vars

\* a report with a center was applied to a state with a pending zoom
C7_Witness ==
    /\ op.name = "update"
    /\ op.md.has_center
    /\ op.before.zoom_to_feature /\ op.before.bounds # None
    /\ map_state.bounds = None /\ ~map_state.zoom_to_feature
    /\ map_state.last_clicked_feature # None
    /\ map_state.center = op.md.center

\* C8 as stated: zoom_to_feature(feature, kind) sets bounds, the pending
\* flag, the center and last_clicked_feature for every feature passed to it
\* and leaves zoom unchanged.
C8_ZoomEveryFeature ==
    [][op'.name = "zoom"
       => /\ map_state'.bounds = calculate_feature_bounds(op'.feature)
          /\ map_state'.bounds # None
          /\ map_state'.zoom_to_feature = TRUE
          /\ map_state'.center = BoxMidpoint(map_state'.bounds[1])
          /\ map_state'.last_clicked_feature =
                 Some([name |-> ShownName(op'.feature, op'.kind), type |-> op'.kind])
          /\ map_state'.zoom = map_state.zoom]_vars

\* C8 amended: zoom_to_feature(feature, kind) does so for every feature
\* with at least one coordinate; for a feature without coordinates it
\* leaves the whole map state unchanged.
C8_ZoomFeatureWithCoordinates ==
    [][op'.name = "zoom"
       => IF HasCoordinates(op'.feature)
          THEN /\ map_state'.bounds = calculate_feature_bounds(op'.feature)
               /\ map_state'.bounds # None
               /\ map_state'.zoom_to_feature = TRUE
               /\ map_state'.center = BoxMidpoint(map_state'.bounds[1])
               /\ map_state'.last_clicked_feature =
                      Some([name |-> ShownName(op'.feature, op'.kind), type |-> op'.kind])
               /\ map_state'.zoom = map_state.zoom
          ELSE map_state' = map_state]_vars

\* zoom_to_feature was applied to Flood1 after a pan/zoom report
C8_Witness ==
    /\ op.name = "zoom"
    /\ op.feature = Flood1 /\ op.kind = "flood"
    /\ op.before.zoom = 9
    /\ map_state.zoom = 9
    /\ map_state.zoom_to_feature
    /\ map_state.center = <<495500, -959500>>

\* C9: from every viewport state, Reset Map View yields exactly the
\* initial state: center [53.7609, -98.8139], zoom 5, bounds None,
\* zoom_to_feature false, last_clicked_feature None, the value
\* initialize_map_state creates.
C9_ResetIsInitial ==
    [][op'.name = "reset"
       => /\ map_state' = [center |-> <<537609, -988139>>,
                           zoom |-> 5,
                           bounds |-> None,
                           zoom_to_feature |-> FALSE,
                           last_clicked_feature |-> None]
          /\ map_state' = initialize_map_state]_vars

\* the button was pressed while a feature was focused and a zoom pending
C9_Witness ==
    /\ op.name = "reset"
    /\ op.before.zoom_to_feature
    /\ op.before.last_clicked_feature # None
    /\ op.before.zoom = 9
    /\ map_state = initialize_map_state

(***************************************************************************)
(* Properties of the home page's render cycle (Spec).                      *)
(***************************************************************************)
\* the step of a run from its top to the st_folium call
RenderStep == pc = "run" /\ pc' = "map"

\* the step of a run from the st_folium call to its end
HandleStep == pc = "map" /\ pc' # "map"

\* C4 as stated: the fit decision is a function of the viewport state only:
\* a pending zoom with bounds is fitted and the flag cleared; otherwise,
\* when last_clicked_feature is None the map is fitted to a default extent;
\* otherwise no fit is performed.
C4_FitByViewportOnly ==
    [][RenderStep
       => IF map_state.zoom_to_feature /\ map_state.bounds # None
          THEN /\ fit' = Some([target |-> "feature", box |-> map_state.bounds[1]])
               /\ ~map_state'.zoom_to_feature
          ELSE IF map_state.last_clicked_feature = None
          THEN fit' # None /\ fit'[1].target # "feature"
          ELSE fit' = None]_vars

\* C4 amended: a pending zoom with bounds is fitted and only the flag
\* cleared; otherwise the map state is left alone and, when
\* last_clicked_feature is None, the map is fitted to the provincial
\* boundary's extent if the boundary is available and the mask shown, else
\* to get_bounds of the first non-empty of the filtered municipalities, the
\* shown wildfires and the shown floods, and not fitted when all of these
\* are empty; when last_clicked_feature is present no fit is performed.
C4_FitByViewportAndWidgets ==
    [][RenderStep
       => IF map_state.zoom_to_feature /\ map_state.bounds # None
          THEN /\ fit' = Some([target |-> "feature", box |-> map_state.bounds[1]])
               /\ map_state' = [map_state EXCEPT !.zoom_to_feature = FALSE]
          ELSE /\ map_state' = map_state
               /\ IF map_state.last_clicked_feature # None THEN fit' = None
                  ELSE IF inputs.boundary /\ inputs.show_mask
                  THEN fit' = Some([target |-> "boundary", box |-> ManitobaExtent])
                  ELSE IF inputs.muni_filtered # <<>>
                  THEN fit' = Some([target |-> "data",
                                    box |-> get_bounds(inputs.muni_filtered)])
                  ELSE IF inputs.show_wf /\ inputs.wf_features # <<>>
                  THEN fit' = Some([target |-> "data",
                                    box |-> get_bounds(inputs.wf_features)])
                  ELSE IF inputs.show_fl /\ inputs.fl_features # <<>>
                  THEN fit' = Some([target |-> "data",
                                    box |-> get_bounds(inputs.fl_features)])
                  ELSE fit' = None]_vars

\* nothing is focused, the wildfire layer is hidden though not empty, and
\* the map was fitted to the floods
C4_Witness ==
    /\ pc = "map"
    /\ map_state.last_clicked_feature = None
    /\ inputs.muni_filtered = <<>>
    /\ ~inputs.show_wf /\ inputs.wf_features # <<>>
    /\ fit = Some([target |-> "data", box |-> <<<<495000, -960000>>, <<496000, -959000>>>>])

\* C5: once a feature has been focused and its pending zoom consumed, a
\* render cycle caused by a filter change (no new click, no reset) in which
\* the map reports no pan/zoom performs no fit and leaves center, zoom and
\* the focused feature as they are, and no re-render with a new fit follows.
C5_QuietRenderLeavesView ==
    [][(/\ HandleStep
        /\ event = "filter"
        /\ ~map_data'.has_center
        /\ map_state.last_clicked_feature # None
        /\ ~map_state.zoom_to_feature)
       => /\ fit = None
          /\ pc' = "idle"
          /\ map_state'.center = map_state.center
          /\ map_state'.zoom = map_state.zoom
          /\ map_state'.last_clicked_feature = map_state.last_clicked_feature
          /\ ~map_state'.zoom_to_feature]_vars

\* C6: consuming a pending zoom clears only the flag: at the end of the
\* render cycle that applied the fit, and of every later cycle not started
\* by a user pan/zoom, click or reset, bounds still equals the bounds
\* computed at click time and last_clicked_feature names the clicked
\* feature.
C6_BoundsRetainedAfterConsume ==
    [][(/\ HandleStep
        /\ event \in {"rerun", "filter"}
        /\ map_state.bounds # None)
       => /\ map_state'.bounds = map_state.bounds
          /\ map_state'.last_clicked_feature = map_state.last_clicked_feature]_vars

(***************************************************************************)
(* Incident upload and merge (report_incidents.py).                        *)
(*                                                                         *)
(* A collection is [present, features]: present is FALSE for a falsy       *)
(* value (None or an empty dict), TRUE for a FeatureCollection dict.       *)
(***************************************************************************)

\* str() of a number, of a [lon, lat] pair and of lists of them
Digit(d) ==
    CASE d = 0 -> "0" [] d = 1 -> "1" [] d = 2 -> "2" [] d = 3 -> "3"
      [] d = 4 -> "4" [] d = 5 -> "5" [] d = 6 -> "6" [] d = 7 -> "7"
      [] d = 8 -> "8" [] d = 9 -> "9"

RECURSIVE NatStr(_)
NatStr(n) == IF n < 10 THEN Digit(n) ELSE NatStr(n \div 10) \o Digit(n % 10)

NumStr(n) == IF n < 0 THEN "-" \o NatStr(0 - n) ELSE NatStr(n)

PairStr(c) == "[" \o NumStr(c[1]) \o ", " \o NumStr(c[2]) \o "]"

RECURSIVE JoinStr(_)
JoinStr(strs) ==
    IF strs = <<>> THEN ""
    ELSE IF Len(strs) = 1 THEN strs[1]
    ELSE strs[1] \o ", " \o JoinStr(Tail(strs))

ListStr(strs) == "[" \o JoinStr(strs) \o "]"

RingStr(ring) == ListStr([i \in 1..Len(ring) |-> PairStr(ring[i])])

PolyStr(rings) == ListStr([i \in 1..Len(rings) |-> RingStr(rings[i])])

\* str(geom.get("coordinates", [])[:1]) if geom else "": the first element
\* of "coordinates" is the first ring of a Polygon and the first polygon
\* of a MultiPolygon
coords_str(geom) ==
    IF ~Truthy(geom) THEN ""
    ELSE IF geom.type = "Polygon"
    THEN (IF geom.polys[1] = <<>> THEN "[]" ELSE ListStr(<<RingStr(geom.polys[1][1])>>))
    ELSE IF geom.type = "MultiPolygon"
    THEN (IF geom.polys = <<>> THEN "[]" ELSE ListStr(<<PolyStr(geom.polys[1])>>))
    ELSE "[]"

\* f"{props.get('name', '')}-{props.get('type', '')}-{coords_str}"
Signature(feature) ==
    (IF feature.has_name THEN feature.name ELSE "") \o "-" \o feature.type \o "-"
        \o coords_str(feature.geometry)

ExistingSignatures(features) == {Signature(features[i]) : i \in 1..Len(features)}

\* the loop over new_data's features
RECURSIVE MergeLoop(_, _, _, _, _)
MergeLoop(new_features, merged_features, existing_signatures, new_features_added, duplicates_found) ==
    IF new_features = <<>>
    THEN [features |-> merged_features, added |-> new_features_added,
          duplicates |-> duplicates_found]
    ELSE LET feature == new_features[1]
             signature == Signature(feature)
         IN IF signature \notin existing_signatures
            THEN MergeLoop(Tail(new_features), Append(merged_features, feature),
                           existing_signatures \cup {signature},
                           new_features_added + 1, duplicates_found)
            ELSE MergeLoop(Tail(new_features), merged_features, existing_signatures,
                           new_features_added, duplicates_found + 1)

\* a variant whose set of existing signatures is never filled
merge_without_existing_signatures(existing_data, new_data) ==
    IF ~existing_data.present
    THEN [triple |-> FALSE, data |-> new_data, added |-> 0, duplicates |-> 0]
    ELSE LET r == MergeLoop(new_data.features, existing_data.features, {}, 0, 0)
         IN [triple |-> TRUE, data |-> FeatureCollection(r.features),
             added |-> r.added, duplicates |-> r.duplicates]

\* a variant that puts the accepted new features before the existing ones
merge_new_features_first(existing_data, new_data) ==
    IF ~existing_data.present
    THEN [triple |-> FALSE, data |-> new_data, added |-> 0, duplicates |-> 0]
    ELSE LET r == MergeLoop(new_data.features, existing_data.features,
                            ExistingSignatures(existing_data.features), 0, 0)
             n == Len(existing_data.features)
         IN [triple |-> TRUE,
             data |-> FeatureCollection(SubSeq(r.features, n + 1, Len(r.features))
                                        \o existing_data.features),
             added |-> r.added, duplicates |-> r.duplicates]

\* a variant whose counter of added features is incremented for every
\* incoming feature
merge_counting_every_feature(existing_data, new_data) ==
    IF ~existing_data.present
    THEN [triple |-> FALSE, data |-> new_data, added |-> 0, duplicates |-> 0]
    ELSE LET r == MergeLoop(new_data.features, existing_data.features,
                            ExistingSignatures(existing_data.features), 0, 0)
         IN [triple |-> TRUE, data |-> FeatureCollection(r.features),
             added |-> r.added + r.duplicates, duplicates |-> r.duplicates]

\* a variant whose loop does not add the signature of an accepted feature
\* to existing_signatures
RECURSIVE MergeLoopWithoutAdd(_, _, _, _, _)
MergeLoopWithoutAdd(new_features, merged_features, existing_signatures, new_features_added,
                    duplicates_found) ==
    IF new_features = <<>>
    THEN [features |-> merged_features, added |-> new_features_added,
          duplicates |-> duplicates_found]
    ELSE LET feature == new_features[1]
             signature == Signature(feature)
         IN IF signature \notin existing_signatures
            THEN MergeLoopWithoutAdd(Tail(new_features), Append(merged_features, feature),
                                     existing_signatures,
                                     new_features_added + 1, duplicates_found)
            ELSE MergeLoopWithoutAdd(Tail(new_features), merged_features,
                                     existing_signatures,
                                     new_features_added, duplicates_found + 1)

merge_without_adding_signatures(existing_data, new_data) ==
    IF ~existing_data.present
    THEN [triple |-> FALSE, data |-> new_data, added |-> 0, duplicates |-> 0]
    ELSE LET r == MergeLoopWithoutAdd(new_data.features, existing_data.features,
                                      ExistingSignatures(existing_data.features), 0, 0)
         IN [triple |-> TRUE, data |-> FeatureCollection(r.features),
             added |-> r.added, duplicates |-> r.duplicates]

\* merge_incidents_data: the bare new_data when existing_data is falsy,
\* else the triple (result, new_features_added, duplicates_found)
merge_incidents_data(existing_data, new_data) ==
    IF ~existing_data.present
    THEN [triple |-> FALSE, data |-> new_data, added |-> 0, duplicates |-> 0]
    ELSE LET r == MergeLoop(new_data.features, existing_data.features,
                            ExistingSignatures(existing_data.features), 0, 0)
         IN [triple |-> TRUE, data |-> FeatureCollection(r.features),
             added |-> r.added, duplicates |-> r.duplicates]

\* a variant in which merged_features is existing_data's own list
existing_after_merge_without_copy(existing_data, new_data) ==
    IF ~existing_data.present THEN existing_data
    ELSE merge_incidents_data(existing_data, new_data).data

\* The caller's existing_data object after the call.  The function writes
\* to two objects only, the set existing_signatures and the list
\* merged_features, and merged_features is a copy of existing_data's list
\* (.copy()), so the appends do not reach existing_data.
existing_after_merge(existing_data, new_data) ==
    IF ~existing_data.present THEN existing_data
    ELSE FeatureCollection(existing_data.features)

(***************************************************************************)
(* merge_incidents_data called directly on drawn collections.              *)
(***************************************************************************)
\* Fire1 after it has spread: same name, type and first vertex as Fire1,
\* other vertices moved
Fire1Grown ==
    Feature("Fire1", "wildfire",
        Polygon(<< << <<-971200, 499000>>, <<-970800, 499000>>,
                      <<-970800, 499400>>, <<-971200, 499400>> >> >>))

MergeFeatures == {Fire1, Fire1Grown, Flood1, Ghost, Spark}

MaxFeatures == 2

RECURSIVE SeqsUpTo(_, _)
SeqsUpTo(S, n) ==
    IF n = 0 THEN {<<>>}
    ELSE LET shorter == SeqsUpTo(S, n - 1) IN
         shorter \cup {Append(q, x) : q \in shorter, x \in S}

MergeCollections == {FeatureCollection(fs) : fs \in SeqsUpTo(MergeFeatures, MaxFeatures)}

MergeUnused ==
    /\ map_state = initialize_map_state
    /\ pc = "idle"
    /\ event = "load"
    /\ last_object_clicked = None
    /\ inputs = DefaultInputs(TRUE)
    /\ fit = None
    /\ map_data = NoMapData
    /\ clicked = None
    /\ before_click = initialize_map_state
    /\ op = IdleOp
    /\ incidents_data = DefaultIncidents
    /\ incidents_source = "default"
    /\ upload_history = None
    /\ upload = NoUpload

MergeUnchanged ==
    UNCHANGED <<map_state, pc, event, last_object_clicked, inputs, fit, map_data,
                clicked, before_click, op, incidents_data, incidents_source,
                upload_history, upload>>

InitMerge ==
    /\ \E a \in MergeCollections \cup {NoCollection}, b \in MergeCollections :
         call = [NoCall EXCEPT !.existing = a, !.incoming = b, !.existing_after = a]
    /\ MergeUnused

\* merge_incidents_data(existing, incoming)
CallMerge ==
    /\ call.name = "none"
    /\ call' = [call EXCEPT !.name = "merge",
                            !.existing_after = existing_after_merge(call.existing, call.incoming),
                            !.result = merge_incidents_data(call.existing, call.incoming)]
    /\ MergeUnchanged

\* merge_incidents_data(existing, existing) for a feature collection
CallMergeSelf ==
    /\ call.name = "none"
    /\ call.existing.present
    /\ call' = [call EXCEPT !.name = "merge_self",
                            !.incoming = call.existing,
                            !.existing_after = existing_after_merge(call.existing, call.existing),
                            !.result = merge_incidents_data(call.existing, call.existing)]
    /\ MergeUnchanged

NextMerge ==
    \/ CallMerge
    \/ CallMergeSelf

SpecMerge == InitMerge /\ [][NextMerge]_vars

\* C2: for every feature collection A, also one in which several features
\* share a signature, merge_incidents_data(A, A) returns addedCount 0 and
\* duplicateCount the number of features of A.
C2_MergeSelfAddsNothing ==
    call.name = "merge_self"
        => /\ call.result.triple
           /\ call.result.added = 0
           /\ call.result.duplicates = Len(call.existing.features)

\* a collection with two features of one signature was merged with itself
C2_Witness ==
    /\ call.name = "merge_self"
    /\ call.existing.features = <<Fire1, Fire1>>
    /\ call.result.duplicates = 2
    /\ call.result.data.features = <<Fire1, Fire1>>

\* the first vertex of the first ring of a feature's geometry, if any
FirstVertex(feature) ==
    LET cs == iter_coords(feature.geometry) IN
    IF cs = <<>> THEN None ELSE Some(cs[1])

SameNameTypeFirstVertex(f, g) ==
    /\ f.has_name = g.has_name /\ f.name = g.name
    /\ f.type = g.type
    /\ FirstVertex(f) # None
    /\ FirstVertex(f) = FirstVertex(g)

\* C3: one incoming feature whose name, type and first vertex of the first
\* ring equal those of an existing feature is counted as a duplicate and
\* not appended, whatever its remaining vertices: addedCount 0,
\* duplicateCount 1.
C3_SameFirstVertexIsDuplicate ==
    (/\ call.name = "merge"
     /\ call.existing.present
     /\ Len(call.incoming.features) = 1
     /\ \E i \in 1..Len(call.existing.features) :
            SameNameTypeFirstVertex(call.existing.features[i], call.incoming.features[1]))
        => /\ call.result.added = 0
           /\ call.result.duplicates = 1
           /\ call.result.data.features = call.existing.features

\* C11 as stated: merge_incidents_data returns a triple (merged collection,
\* addedCount, duplicateCount) for every existing collection, an empty or
\* absent one included.
C11_MergeReturnsTriple ==
    call.name = "merge" => call.result.triple

\* C12: for all feature collections A and B the merged collection of
\* merge_incidents_data(A, B) has as many features as A plus the returned
\* addedCount.
C12_MergeIsAdditive ==
    (call.name \in {"merge", "merge_self"} /\ call.existing.present)
        => /\ call.result.triple
           /\ Len(call.result.data.features)
                = Len(call.existing.features) + call.result.added

\* a merge that both added a feature and skipped a duplicate
C12_Witness ==
    /\ call.name = "merge"
    /\ call.existing.features = <<Fire1, Flood1>>
    /\ call.incoming.features = <<Flood1, Fire1Grown>>
    /\ call.result.added = 1
    /\ call.result.duplicates = 1
    /\ Len(call.result.data.features) = 3

ParseResult(is_valid, processed_data, message) ==
    [raised |-> FALSE, is_valid |-> is_valid, processed_data |-> processed_data,
     message |-> message]
ParseRaised ==
    [raised |-> TRUE, is_valid |-> FALSE, processed_data |-> NoCollection, message |-> ""]

\* the features of the custom format: one per incident that has a geometry
RECURSIVE ConvertIncidents(_)
ConvertIncidents(incidents) ==
    IF incidents = <<>> THEN <<>>
    ELSE IF Head(incidents).has_geometry
         THEN <<Head(incidents).feature>> \o ConvertIncidents(Tail(incidents))
         ELSE ConvertIncidents(Tail(incidents))

\* a variant without the try/except around the body
parse_without_except(data) ==
    IF data.kind \in {"null", "number"} THEN ParseRaised
    ELSE IF data.kind \in {"string", "list"}
    THEN IF data.mentions_type THEN ParseRaised
         ELSE ParseResult(FALSE, NoCollection, "Invalid format")
    ELSE IF data.has_type /\ data.type = "FeatureCollection"
    THEN IF data.features = None
         THEN ParseResult(TRUE, FeatureCollection(<<>>), "Valid GeoJSON")
         ELSE IF ~data.features[1].is_list THEN ParseRaised
         ELSE ParseResult(TRUE, FeatureCollection(data.features[1].items), "Valid GeoJSON")
    ELSE IF data.incidents # None
    THEN IF ~data.incidents[1].is_list THEN ParseRaised
         ELSE ParseResult(TRUE,
                          FeatureCollection(ConvertIncidents(data.incidents[1].items)),
                          "Custom JSON converted to GeoJSON")
    ELSE ParseResult(FALSE, NoCollection, "Invalid format")

\* a variant that makes a feature of every incident, with or without a
\* geometry
parse_keeping_every_incident(data) ==
    IF data.kind \in {"null", "number"}
    THEN ParseResult(FALSE, NoCollection, "Error parsing data")
    ELSE IF data.kind \in {"string", "list"}
    THEN IF data.mentions_type
         THEN ParseResult(FALSE, NoCollection, "Error parsing data")
         ELSE ParseResult(FALSE, NoCollection, "Invalid format")
    ELSE IF data.has_type /\ data.type = "FeatureCollection"
    THEN IF data.features = None
         THEN ParseResult(TRUE, FeatureCollection(<<>>), "Valid GeoJSON")
         ELSE IF ~data.features[1].is_list
         THEN ParseResult(FALSE, NoCollection, "Error parsing data")
         ELSE ParseResult(TRUE, FeatureCollection(data.features[1].items), "Valid GeoJSON")
    ELSE IF data.incidents # None
    THEN IF ~data.incidents[1].is_list
         THEN ParseResult(FALSE, NoCollection, "Error parsing data")
         ELSE ParseResult(TRUE,
                          FeatureCollection([i \in 1..Len(data.incidents[1].items) |->
                                                data.incidents[1].items[i].feature]),
                          "Custom JSON converted to GeoJSON")
    ELSE ParseResult(FALSE, NoCollection, "Invalid format")

\* parse_incidents_data: (is_valid, processed_data, message).  An exception
\* raised while looking at the value ("type" in None, data["type"] on a
\* string or list, len(None), a loop over None) is caught and reported.
parse_incidents_data(data) ==
    IF data.kind \in {"null", "number"}
    THEN ParseResult(FALSE, NoCollection, "Error parsing data")
    ELSE IF data.kind \in {"string", "list"}
    THEN IF data.mentions_type
         THEN ParseResult(FALSE, NoCollection, "Error parsing data")
         ELSE ParseResult(FALSE, NoCollection, "Invalid format")
    ELSE IF data.has_type /\ data.type = "FeatureCollection"
    THEN IF data.features = None
         THEN ParseResult(TRUE, FeatureCollection(<<>>), "Valid GeoJSON")
         ELSE IF ~data.features[1].is_list
         THEN ParseResult(FALSE, NoCollection, "Error parsing data")
         ELSE ParseResult(TRUE, FeatureCollection(data.features[1].items), "Valid GeoJSON")
    ELSE IF data.incidents # None
    THEN IF ~data.incidents[1].is_list
         THEN ParseResult(FALSE, NoCollection, "Error parsing data")
         ELSE ParseResult(TRUE,
                          FeatureCollection(ConvertIncidents(data.incidents[1].items)),
                          "Custom JSON converted to GeoJSON")
    ELSE ParseResult(FALSE, NoCollection, "Invalid format")

HistoryEntry(filename, new_count, dupe_count) ==
    [filename |-> filename, new_incidents |-> new_count, duplicates |-> dupe_count]

Handled(session, file, outcome, merge_called, message, new_count, dupe_count, before) ==
    [session |-> session,
     upload |-> [handled |-> TRUE, file |-> file, outcome |-> outcome,
                 merge_called |-> merge_called, message |-> message,
                 new_count |-> new_count, dupe_count |-> dupe_count,
                 before |-> before]]

\* a variant that records every processed file in the upload history
ProcessUploadTracksFailures(session, file) ==
    LET tracked == Session(session.incidents_data, session.incidents_source,
                           Some((IF session.upload_history = None THEN <<>>
                                 ELSE session.upload_history[1])
                                \o <<HistoryEntry(file.name, 0, 0)>>))
    IN
    IF ~file.decodable
    THEN Handled(tracked, file, "decode_error", FALSE, "Failed to parse JSON file", 0, 0, session)
    ELSE LET p == parse_incidents_data(file.data) IN
         IF ~p.is_valid
         THEN Handled(tracked, file, "invalid", FALSE, p.message, 0, 0, session)
         ELSE LET m == merge_incidents_data(session.incidents_data, p.processed_data)
                  history == IF session.upload_history = None THEN <<>>
                             ELSE session.upload_history[1]
              IN Handled(Session(m.data, "merged",
                                 Some(Append(history,
                                             HistoryEntry(file.name, m.added, m.duplicates)))),
                         file, "merged", TRUE, p.message, m.added, m.duplicates, session)

\* a variant that does not store the merged collection in the session
ProcessUploadKeepsOldData(session, file) ==
    IF ~file.decodable
    THEN Handled(session, file, "decode_error", FALSE, "Failed to parse JSON file", 0, 0, session)
    ELSE LET p == parse_incidents_data(file.data) IN
         IF ~p.is_valid
         THEN Handled(session, file, "invalid", FALSE, p.message, 0, 0, session)
         ELSE LET m == merge_incidents_data(session.incidents_data, p.processed_data)
                  history == IF session.upload_history = None THEN <<>>
                             ELSE session.upload_history[1]
              IN Handled(Session(session.incidents_data, "merged",
                                 Some(Append(history,
                                             HistoryEntry(file.name, m.added, m.duplicates)))),
                         file, "merged", TRUE, p.message, m.added, m.duplicates, session)

\* the handler of the "Process & Add Incidents" button.  The session's
\* incidents_data is a non-empty dict from its initialisation on, so the
\* merge returns its triple.  The history entry's timestamp is left out.
ProcessUpload(session, file) ==
    IF ~file.decodable
    THEN Handled(session, file, "decode_error", FALSE, "Failed to parse JSON file", 0, 0, session)
    ELSE LET p == parse_incidents_data(file.data) IN
         IF ~p.is_valid
         THEN Handled(session, file, "invalid", FALSE, p.message, 0, 0, session)
         ELSE LET m == merge_incidents_data(session.incidents_data, p.processed_data)
                  history == IF session.upload_history = None THEN <<>>
                             ELSE session.upload_history[1]
              IN Handled(Session(m.data, "merged",
                                 Some(Append(history,
                                             HistoryEntry(file.name, m.added, m.duplicates)))),
                         file, "merged", TRUE, p.message, m.added, m.duplicates, session)

MaxUploads == 3

UploadedFiles ==
    { UploadedFile("broken.json", FALSE, JScalar("null", FALSE)),
      UploadedFile("null.json", TRUE, JScalar("null", FALSE)),
      UploadedFile("number.json", TRUE, JScalar("number", FALSE)),
      UploadedFile("text.json", TRUE, JScalar("string", TRUE)),
      UploadedFile("list.json", TRUE, JScalar("list", FALSE)),
      UploadedFile("other.json", TRUE, JDict(TRUE, "Feature", None, None)),
      UploadedFile("untyped.json", TRUE, JDict(FALSE, "", JList(<<Flood1>>), None)),
      UploadedFile("nofeatures.geojson", TRUE, JDict(TRUE, "FeatureCollection", JNullValue, None)),
      UploadedFile("noincidents.json", TRUE, JDict(FALSE, "", None, JNullValue)),
      UploadedFile("empty.geojson", TRUE, JDict(TRUE, "FeatureCollection", None, None)),
      UploadedFile("fire.geojson", TRUE, JDict(TRUE, "FeatureCollection", JList(<<Fire1>>), None)),
      UploadedFile("grown.geojson", TRUE,
                   JDict(TRUE, "FeatureCollection", JList(<<Fire1Grown, Flood1>>), None)),
      UploadedFile("floods.geojson", TRUE,
                   JDict(TRUE, "FeatureCollection", JList(<<Flood1, Flood1>>), None)),
      UploadedFile("custom.json", TRUE,
                   JDict(FALSE, "", None,
                         JList(<<Incident(TRUE, Spark), Incident(FALSE, Ghost)>>))) }

UploadUnused ==
    /\ map_state = initialize_map_state
    /\ pc = "idle"
    /\ event = "load"
    /\ last_object_clicked = None
    /\ inputs = DefaultInputs(TRUE)
    /\ fit = None
    /\ map_data = NoMapData
    /\ clicked = None
    /\ before_click = initialize_map_state
    /\ op = IdleOp
    /\ call = NoCall

UploadUnchanged ==
    UNCHANGED <<map_state, pc, event, last_object_clicked, inputs, fit, map_data,
                clicked, before_click, op, call>>

\* report_incidents_page, first run of a session
InitUpload ==
    /\ incidents_data = DefaultIncidents
    /\ incidents_source = "default"
    /\ upload_history = None
    /\ upload = NoUpload
    /\ UploadUnused

HistoryLen == IF upload_history = None THEN 0 ELSE Len(upload_history[1])

\* a file is chosen and "Process & Add Incidents" is pressed
Upload ==
    /\ HistoryLen < MaxUploads
    /\ \E file \in UploadedFiles :
         LET r == ProcessUpload(Session(incidents_data, incidents_source, upload_history), file)
         IN /\ incidents_data' = r.session.incidents_data
            /\ incidents_source' = r.session.incidents_source
            /\ upload_history' = r.session.upload_history
            /\ upload' = r.upload
    /\ UploadUnchanged

\* a variant that leaves the upload history in the session
ResetKeepsHistory ==
    /\ incidents_data' = DefaultIncidents
    /\ incidents_source' = "default"
    /\ upload' = NoUpload
    /\ UNCHANGED upload_history
    /\ UploadUnchanged

\* "Reset to Default" is pressed; the page reruns
ResetToDefault ==
    /\ incidents_data' = DefaultIncidents
    /\ incidents_source' = "default"
    /\ upload_history' = None
    /\ upload' = NoUpload
    /\ UploadUnchanged

NextUpload ==
    \/ Upload
    \/ ResetToDefault

SpecUpload == InitUpload /\ [][NextUpload]_vars

\* the uploaded file cannot be decoded, or the parser reports it invalid
Malformed(file) == ~file.decodable \/ ~parse_incidents_data(file.data).is_valid

\* C10: when the uploaded file cannot be decoded as JSON or
\* parse_incidents_data reports it invalid, merge_incidents_data is not
\* called and incidents_data, incidents_source and upload_history are after
\* the handling what they were before it.
C10_MalformedUploadLeavesSession ==
    (upload.handled /\ Malformed(upload.file))
        => /\ ~upload.merge_called
           /\ upload.outcome \in {"decode_error", "invalid"}
           /\ incidents_data = upload.before.incidents_data
           /\ incidents_source = upload.before.incidents_source
           /\ upload_history = upload.before.upload_history

\* a malformed file was handled in a session that had already merged one
C10_Witness ==
    /\ upload.handled
    /\ Malformed(upload.file)
    /\ upload.file.decodable
    /\ incidents_source = "merged"
    /\ upload_history # None
    /\ Len(incidents_data.features) > Len(DefaultIncidents.features)

\* the features of seq at the positions in S, in their order in seq
RECURSIVE Restrict(_, _, _)
Restrict(seq, S, i) ==
    IF i > Len(seq) THEN <<>>
    ELSE (IF i \in S THEN <<seq[i]>> ELSE <<>>) \o Restrict(seq, S, i + 1)

\* C13: an upload leaves the previously stored features as a prefix of the
\* stored features; a merged upload stores the existing features in their
\* order followed by the accepted incoming features, addedCount of them, in
\* their relative order in the incoming collection.
C13_ExistingFirstThenAccepted ==
    [][upload'.handled
       => LET old == incidents_data.features
              new == incidents_data'.features
          IN /\ Len(old) <= Len(new)
             /\ SubSeq(new, 1, Len(old)) = old
             /\ ~Malformed(upload'.file)
                  => LET inc == parse_incidents_data(upload'.file.data).processed_data.features
                     IN /\ Len(new) = Len(old) + upload'.new_count
                        /\ \E S \in SUBSET (1..Len(inc)) :
                             SubSeq(new, Len(old) + 1, Len(new)) = Restrict(inc, S, 1)]_vars

\* two uploads were merged, each appending behind what was stored
C13_Witness ==
    /\ upload.handled
    /\ upload.file.name = "custom.json"
    /\ upload.before.incidents_data.features = <<Fire1, Fire1Grown, Flood1>>
    /\ incidents_data.features = <<Fire1, Fire1Grown, Flood1, Spark>>

\* C15: when the same valid payload is uploaded twice in a row, the second
\* upload adds 0 features and leaves the stored incidents_data with the
\* same features in the same order as after the first.
C15_RepeatedUploadAddsNothing ==
    [][(/\ upload.handled /\ ~Malformed(upload.file)
        /\ upload'.handled /\ upload'.file = upload.file
        /\ upload' # upload)
       => /\ upload'.outcome = "merged"
          /\ upload'.new_count = 0
          /\ incidents_data'.features = incidents_data.features]_vars

\* a file that added two features was uploaded again and added none
C15_Witness ==
    /\ upload.handled
    /\ upload.file.name = "grown.geojson"
    /\ upload.new_count = 0
    /\ upload.dupe_count = 2
    /\ upload_history # None
    /\ Len(upload_history[1]) = 2
    /\ upload_history[1][1] = HistoryEntry("grown.geojson", 2, 0)
    /\ incidents_data.features = <<Fire1, Fire1Grown, Flood1>>

(***************************************************************************)
(* find_clicked_feature called directly on drawn lists and click points.   *)
(***************************************************************************)
\* a municipality around Flood1 whose vertex average is Flood1's
Lake ==
    Feature("Lake", "",
        Polygon(<< << <<-961000, 494500>>, <<-958000, 494500>>,
                      <<-958000, 496500>>, <<-961000, 496500>> >> >>))

\* a small flood in the middle of Flood1, with the same vertex average
Pond ==
    Feature("Pond", "flood",
        Polygon(<< << <<-959600, 495400>>, <<-959400, 495400>>,
                      <<-959400, 495600>>, <<-959600, 495600>> >> >>))

ClickMunis == {Winnipeg, Lake}
ClickWildfires == {Fire1, Spark, Marker}
ClickFloods == {Flood1, Pond, Ghost}

MaxListed == 2

\* Flood1's centroid; Fire1's centroid; a corner of Winnipeg's box, which is
\* also the fallback centroid; a point north of Lake's box but nearer to its
\* centroid than half its span; points 0.03 and 0.05 degree from Spark;
\* open country
ClickTestPoints ==
    {<<495500, -959500>>, <<499100, -971100>>, <<500000, -970000>>,
     <<496700, -959500>>, <<505300, -965000>>, <<505500, -965000>>,
     <<520000, -950000>>}

ClickUnused ==
    /\ map_state = initialize_map_state
    /\ event = "click"
    /\ fit = None
    /\ map_data = NoMapData
    /\ before_click = initialize_map_state
    /\ op = IdleOp
    /\ incidents_data = DefaultIncidents
    /\ incidents_source = "default"
    /\ upload_history = None
    /\ upload = NoUpload
    /\ call = NoCall

ClickUnchanged ==
    UNCHANGED <<map_state, event, fit, map_data, before_click, op, incidents_data,
                incidents_source, upload_history, upload, call, last_object_clicked,
                inputs>>

InitClick ==
    /\ pc = "resolve"
    /\ clicked = None
    /\ \E p \in ClickTestPoints : last_object_clicked = Some(p)
    /\ \E ms \in SeqsUpTo(ClickMunis, MaxListed),
          ws \in SeqsUpTo(ClickWildfires, MaxListed),
          fs \in SeqsUpTo(ClickFloods, MaxListed) :
         inputs = [DefaultInputs(TRUE) EXCEPT !.muni_filtered = ms,
                                              !.wf_features = ws,
                                              !.fl_features = fs]
    /\ ClickUnused

\* find_clicked_feature(clicked_lat, clicked_lng, muni_filtered, wf_features,
\* fl_features)
ResolveClick ==
    /\ pc = "resolve"
    /\ pc' = "resolved"
    /\ clicked' = find_clicked_feature(last_object_clicked[1][1], last_object_clicked[1][2],
                                       inputs.muni_filtered, inputs.wf_features,
                                       inputs.fl_features)
    /\ ClickUnchanged

NextClick == ResolveClick

SpecClick == InitClick /\ [][NextClick]_vars

\* the features with their kinds in the order municipalities, wildfires,
\* floods; the click; each feature's squared centroid distance
ClickItems ==
    [i \in 1..Len(inputs.muni_filtered) |-> <<inputs.muni_filtered[i], "municipality">>]
        \o [i \in 1..Len(inputs.wf_features) |-> <<inputs.wf_features[i], "wildfire">>]
        \o [i \in 1..Len(inputs.fl_features) |-> <<inputs.fl_features[i], "flood">>]
ClickLat == last_object_clicked[1][1]
ClickLng == last_object_clicked[1][2]
CentroidDist2(feature) == Dist2(ClickLat, ClickLng, centroid_of_feature(feature))

\* a candidate: a feature with coordinates whose bounding box, borders
\* included, holds the click, or whose centroid is nearer to the click than
\* max(0.05, 0.5 * maxSpan); spans are whole hundredths, so the half is exact
IsCandidate(feature) ==
    /\ HasCoordinates(feature)
    /\ LET box == get_bounds(<<feature>>)
           maxSpan == Max2(box[2][1] - box[1][1], box[2][2] - box[1][2])
           limit == Max2(500, maxSpan \div 2)
       IN \/ /\ box[1][1] <= ClickLat /\ ClickLat <= box[2][1]
             /\ box[1][2] <= ClickLng /\ ClickLng <= box[2][2]
          \/ CentroidDist2(feature) < limit * limit

Candidates == {i \in 1..Len(ClickItems) : IsCandidate(ClickItems[i][1])}

AtCentroid ==
    {i \in 1..Len(ClickItems) :
        /\ HasCoordinates(ClickItems[i][1])
        /\ centroid_of_feature(ClickItems[i][1]) = <<ClickLat, ClickLng>>}

FloodAtCentroid ==
    \E k \in 1..Len(inputs.fl_features) :
        /\ HasCoordinates(inputs.fl_features[k])
        /\ centroid_of_feature(inputs.fl_features[k]) = <<ClickLat, ClickLng>>

\* C18 as stated: a click at the vertex-average centroid of a visible flood
\* polygon returns that flood with kind "flood", whatever else is visible.
C18_CentroidClickReturnsFlood ==
    pc = "resolved"
        => \A k \in 1..Len(inputs.fl_features) :
             (/\ HasCoordinates(inputs.fl_features[k])
              /\ centroid_of_feature(inputs.fl_features[k]) = <<ClickLat, ClickLng>>)
                => clicked = Some(<<inputs.fl_features[k], "flood">>)

\* C18 amended: a click at the vertex-average centroid of a visible flood
\* polygon returns the first feature, in the order municipalities,
\* wildfires, floods and list order, that has coordinates and its centroid
\* at the click point: the flood itself, with kind "flood", when no such
\* feature is walked before it.
C18_CentroidClickReturnsFirstAtCentroid ==
    (pc = "resolved" /\ FloodAtCentroid)
        => \E i \in AtCentroid :
             /\ \A j \in AtCentroid : i <= j
             /\ clicked = Some(ClickItems[i])

\* Flood1 is returned for a click at its centroid though Winnipeg, Fire1 and
\* Pond are visible too
C18_Witness ==
    /\ pc = "resolved"
    /\ last_object_clicked = Some(<<495500, -959500>>)
    /\ inputs.muni_filtered = <<Winnipeg>>
    /\ inputs.wf_features = <<Fire1>>
    /\ inputs.fl_features = <<Flood1, Pond>>
    /\ clicked = Some(<<Flood1, "flood">>)

\* C19: when the click reported in a render cycle resolves to no feature,
\* the viewport state at the end of the cycle is the state the click
\* handling started from (the state after the reported pan/zoom was taken
\* over), and no re-render is requested.
C19_UnresolvedClickLeavesView ==
    [][(/\ HandleStep
        /\ map_data'.truthy
        /\ map_data'.last_object_clicked # None
        /\ find_clicked_feature(map_data'.last_object_clicked[1][1],
                                map_data'.last_object_clicked[1][2],
                                inputs.muni_filtered, inputs.wf_features,
                                inputs.fl_features) = None)
       => /\ map_state' = before_click'
          /\ map_state' = update_map_state_from_interaction(map_state, map_data')
          /\ clicked' = None
          /\ pc' = "idle"]_vars

\* with Fire1 focused, a click in open country found nothing and the focus
\* is still on Fire1
C19_Witness ==
    /\ pc = "idle"
    /\ event = "click"
    /\ map_data.truthy
    /\ map_data.last_object_clicked = Some(<<520000, -950000>>)
    /\ clicked = None
    /\ map_state = before_click
    /\ map_state.last_clicked_feature = Some([name |-> "Fire1", type |-> "wildfire"])

\* the feature's own bounding box expanded on both sides of each axis by
\* Pad(extent on that axis)
ExpandedBox(feature, Pad(_)) ==
    LET box == get_bounds(<<feature>>)
        lat_pad == Pad(box[2][1] - box[1][1])
        lon_pad == Pad(box[2][2] - box[1][2])
    IN <<<<box[1][1] - lat_pad, box[1][2] - lon_pad>>,
         <<box[2][1] + lat_pad, box[2][2] + lon_pad>>>>

\* max(range * 0.1, 0.01)
MaxPadding(range) == Max2(range \div 10, 100)

\* range * 0.1, and 0.01 for a range of zero
TenthOrMinimum(range) == IF range = 0 THEN 100 ELSE range \div 10

\* C20 as stated: for every feature with at least one coordinate,
\* calculate_feature_bounds expands the feature's bounding box on each
\* axis, on both sides, by max(range * 0.1, 0.01), for every extent.
C20_PaddingIsMax ==
    [][(op'.name = "zoom" /\ HasCoordinates(op'.feature))
       => map_state'.bounds = Some(ExpandedBox(op'.feature, MaxPadding))]_vars

\* C20 amended: the expansion on an axis is range * 0.1 when the extent on
\* that axis is not zero and 0.01 when it is zero.
C20_PaddingIsTenthOrMinimum ==
    [][(op'.name = "zoom" /\ HasCoordinates(op'.feature))
       => /\ map_state'.bounds = Some(ExpandedBox(op'.feature, TenthOrMinimum))
          /\ calculate_feature_bounds(op'.feature)
               = Some(ExpandedBox(op'.feature, TenthOrMinimum))]_vars

\* Fire1, 0.02 degree wide, was zoomed to: its box is expanded by 0.002
C20_Witness ==
    /\ op.name = "zoom"
    /\ op.feature = Fire1
    /\ map_state.bounds = Some(<<<<498980, -971220>>, <<499220, -970980>>>>)

(***************************************************************************)
(* The geometry utilities called directly on drawn features.               *)
(***************************************************************************)
\* an incident whose geometry is null, and one whose polygon has no rings
Void == Feature("Void", "wildfire", NullGeometry)
Hollow == Feature("Hollow", "flood", Polygon(<<>>))

GeomFeatures == {Winnipeg, Fire1, Spark, Flood1, Ghost, Marker, Void, Hollow}

MaxGeomFeatures == 2

NoGeomCall ==
    [name |-> "none", features |-> <<>>, raised |-> FALSE,
     centroid |-> FallbackCentroid, box |-> FallbackBounds]

GeomUnused ==
    /\ map_state = initialize_map_state
    /\ pc = "idle"
    /\ event = "load"
    /\ last_object_clicked = None
    /\ inputs = DefaultInputs(TRUE)
    /\ fit = None
    /\ map_data = NoMapData
    /\ clicked = None
    /\ before_click = initialize_map_state
    /\ op = IdleOp
    /\ incidents_data = DefaultIncidents
    /\ incidents_source = "default"
    /\ upload_history = None
    /\ upload = NoUpload

GeomUnchanged ==
    UNCHANGED <<map_state, pc, event, last_object_clicked, inputs, fit, map_data,
                clicked, before_click, op, incidents_data, incidents_source,
                upload_history, upload>>

InitGeom ==
    /\ \E fs \in SeqsUpTo(GeomFeatures, MaxGeomFeatures) :
         call = [NoGeomCall EXCEPT !.features = fs]
    /\ GeomUnused

\* get_bounds(features)
CallGetBounds ==
    /\ call.name = "none"
    /\ call' = [call EXCEPT !.name = "get_bounds",
                            !.raised = get_bounds_raises(call.features),
                            !.box = IF get_bounds_raises(call.features) THEN call.box
                                    ELSE get_bounds(call.features)]
    /\ GeomUnchanged

\* centroid_of_feature(features[0])
CallCentroid ==
    /\ call.name = "none"
    /\ call.features # <<>>
    /\ call' = [call EXCEPT !.name = "centroid",
                            !.raised = centroid_of_feature_raises(call.features[1]),
                            !.centroid = IF centroid_of_feature_raises(call.features[1])
                                         THEN call.centroid
                                         ELSE centroid_of_feature(call.features[1])]
    /\ GeomUnchanged

NextGeom ==
    \/ CallGetBounds
    \/ CallCentroid

SpecGeom == InitGeom /\ [][NextGeom]_vars

NoCoordinates(features) == \A i \in 1..Len(features) : ~HasCoordinates(features[i])

\* C21 as stated: for a feature whose geometry is absent, null, empty or of
\* an unknown type the utilities do not fail: centroid_of_feature returns
\* the fallback point (50.0, -97.0), and get_bounds over a collection
\* without coordinates returns the fallback box [[48.0, -102.0],
\* [60.5, -88.0]].
C21_UtilitiesFallBack ==
    /\ (call.name = "centroid" /\ ~HasCoordinates(call.features[1]))
         => ~call.raised /\ call.centroid = <<500000, -970000>>
    /\ (call.name = "get_bounds" /\ NoCoordinates(call.features))
         => ~call.raised /\ call.box = <<<<480000, -1020000>>, <<605000, -880000>>>>

\* C25: for a collection with at least one coordinate get_bounds returns
\* [[south, west], [north, east]] with south <= north and west <= east such
\* that every coordinate of every Polygon or MultiPolygon feature of the
\* collection lies within the box; for a collection without coordinates it
\* returns the fallback box.
C25_BoundsHoldEveryCoordinate ==
    call.name = "get_bounds"
        => /\ ~call.raised
           /\ IF NoCoordinates(call.features)
              THEN call.box = <<<<480000, -1020000>>, <<605000, -880000>>>>
              ELSE /\ call.box[1][1] <= call.box[2][1]
                   /\ call.box[1][2] <= call.box[2][2]
                   /\ \A i \in 1..Len(call.features) :
                        LET f == call.features[i]
                            rings == IF f.geometry.type = "Polygon" THEN f.geometry.polys[1]
                                     ELSE IF f.geometry.type = "MultiPolygon"
                                     THEN Flatten(f.geometry.polys)
                                     ELSE <<>>
                        IN \A r \in 1..Len(rings) : \A v \in 1..Len(rings[r]) :
                             /\ call.box[1][1] <= rings[r][v][2]
                             /\ rings[r][v][2] <= call.box[2][1]
                             /\ call.box[1][2] <= rings[r][v][1]
                             /\ rings[r][v][1] <= call.box[2][2]

\* the box of Winnipeg and Flood1 together, asked for with Flood1 first
C25_Witness ==
    /\ call.name = "get_bounds"
    /\ call.features = <<Flood1, Winnipeg>>
    /\ call.box = <<<<495000, -972000>>, <<500000, -959000>>>>

(***************************************************************************)
(* parse_incidents_data called directly on drawn payloads.                 *)
(***************************************************************************)
ParseFeatures == {Fire1, Flood1, Ghost}
ParseIncidents == {Incident(TRUE, Fire1), Incident(TRUE, Spark), Incident(FALSE, Ghost)}

MaxEntries == 2

ParsePayloads ==
    {JScalar("null", FALSE), JScalar("number", FALSE)}
    \cup {JScalar(k, m) : k \in {"string", "list"}, m \in BOOLEAN}
    \cup {JDict(t[1], t[2], fs, is) :
            t \in {<<FALSE, "">>, <<TRUE, "FeatureCollection">>, <<TRUE, "Feature">>},
            fs \in {None, JNullValue}
                   \cup {JList(x) : x \in SeqsUpTo(ParseFeatures, MaxEntries)},
            is \in {None, JNullValue}
                   \cup {JList(x) : x \in SeqsUpTo(ParseIncidents, MaxEntries)}}

NoParseCall ==
    [name |-> "none", data |-> JScalar("null", FALSE),
     result |-> ParseResult(FALSE, NoCollection, "")]

InitParse ==
    /\ \E d \in ParsePayloads : call = [NoParseCall EXCEPT !.data = d]
    /\ GeomUnused

\* parse_incidents_data(data)
CallParse ==
    /\ call.name = "none"
    /\ call' = [call EXCEPT !.name = "parse", !.result = parse_incidents_data(call.data)]
    /\ GeomUnchanged

NextParse == CallParse

SpecParse == InitParse /\ [][NextParse]_vars

\* the two shapes, read off the payload
IsFeatureCollection(data) ==
    data.kind = "dict" /\ data.has_type /\ data.type = "FeatureCollection"
HasIncidentsKey(data) == data.kind = "dict" /\ data.incidents # None

WithGeometry(entries) == SelectSeq(entries, LAMBDA e : e.has_geometry)

C23_OtherShapesFail ==
    (/\ call.name = "parse"
     /\ ~IsFeatureCollection(call.data)
     /\ ~HasIncidentsKey(call.data))
        => /\ ~call.result.raised
           /\ ~call.result.is_valid
           /\ call.result.processed_data = NoCollection
           /\ call.result.message # ""

\* null was parsed: the exception of the membership test came back as a
\* failure result
C23_Witness ==
    /\ call.name = "parse"
    /\ call.data = JScalar("null", FALSE)
    /\ ~call.result.raised
    /\ ~call.result.is_valid
    /\ call.result.message = "Error parsing data"

(***************************************************************************)
(* calculate_feature_bounds in double precision.  The coordinates of a     *)
(* feature a few units in the last place (ulps) across are written as      *)
(* whole numbers of ulps from a double with an even mantissa in the same   *)
(* binade, one unit per axis.  max - min is then exact, (max - min) * 0.1  *)
(* is a tenth of it up to one part in 2^52, and min - padding and          *)
(* max + padding are rounded to the nearest double, ties to the even       *)
(* mantissa.  A corner is written [hundredths, ulps]: the 0.01 degree of   *)
(* the fallback padding is more than 10^11 ulps.                           *)
(***************************************************************************)
\* tenths / 10 rounded towards minus infinity
RoundDown(tenths) == tenths \div 10

\* tenths / 10 rounded to the nearest whole number, ties to even
RoundHalfEven(tenths) ==
    LET f == tenths \div 10
        d == tenths % 10
    IN  IF d > 5 THEN f + 1
        ELSE IF d < 5 THEN f
        ELSE IF f % 2 = 0 THEN f ELSE f + 1

Corner(hundredths, ulps) == [hundredths |-> hundredths, ulps |-> ulps]

\* min - (range * 0.1 or 0.01) and max + (range * 0.1 or 0.01), lines 79-85
PaddedMin(min, range) ==
    IF range = 0 THEN Corner(-1, min) ELSE Corner(0, RoundHalfEven(10 * min - range))
PaddedMax(max, range) ==
    IF range = 0 THEN Corner(1, max) ELSE Corner(0, RoundHalfEven(10 * max + range))

calculate_feature_bounds_in_doubles(feature) ==
    LET geom == feature.geometry
        cs == iter_coords(geom)
    IN  IF ~Truthy(geom) THEN None
        ELSE IF cs = <<>> THEN None
        ELSE LET lats == Lats(cs)
                 lons == Lons(cs)
                 lat_range == SeqMax(lats) - SeqMin(lats)
                 lon_range == SeqMax(lons) - SeqMin(lons)
             IN Some(<<<<PaddedMin(SeqMin(lats), lat_range),
                         PaddedMin(SeqMin(lons), lon_range)>>,
                       <<PaddedMax(SeqMax(lats), lat_range),
                         PaddedMax(SeqMax(lons), lon_range)>>>>)

MaxUlps == 7

\* features of two vertices up to MaxUlps ulps apart on each axis
TinyFeatures ==
    {Feature("Tiny", "wildfire", Polygon(<<<<<<x1, y1>>, <<x2, y2>>>>>>)) :
        x1 \in 0..MaxUlps, y1 \in 0..MaxUlps, x2 \in 0..MaxUlps, y2 \in 0..MaxUlps}

NoBoundsCall == [name |-> "none", feature |-> Ghost, bounds |-> None]

InitRound ==
    /\ \E f \in TinyFeatures \cup {Ghost} : call = [NoBoundsCall EXCEPT !.feature = f]
    /\ GeomUnused

\* calculate_feature_bounds(feature)
CallFeatureBounds ==
    /\ call.name = "none"
    /\ call' = [call EXCEPT !.name = "bounds",
                            !.bounds = calculate_feature_bounds_in_doubles(call.feature)]
    /\ GeomUnchanged

NextRound == CallFeatureBounds

SpecRound == InitRound /\ [][NextRound]_vars

Below(c, d) ==
    \/ c.hundredths < d.hundredths
    \/ c.hundredths = d.hundredths /\ c.ulps < d.ulps
NotAbove(c, d) == c = d \/ Below(c, d)

\* the feature's own bounding box, and its extent on each axis
OwnBox(feature) ==
    LET box == get_bounds(<<feature>>)
    IN <<<<Corner(0, box[1][1]), Corner(0, box[1][2])>>,
         <<Corner(0, box[2][1]), Corner(0, box[2][2])>>>>
LatExtent(feature) == get_bounds(<<feature>>)[2][1] - get_bounds(<<feature>>)[1][1]
LonExtent(feature) == get_bounds(<<feature>>)[2][2] - get_bounds(<<feature>>)[1][2]

StrictlyInside(own, box) ==
    /\ Below(box[1][1], own[1][1]) /\ Below(box[1][2], own[1][2])
    /\ Below(own[2][1], box[2][1]) /\ Below(own[2][2], box[2][2])
Inside(own, box) ==
    /\ NotAbove(box[1][1], own[1][1]) /\ NotAbove(box[1][2], own[1][2])
    /\ NotAbove(own[2][1], box[2][1]) /\ NotAbove(own[2][2], box[2][2])

\* C24 as stated: for every feature whose extent is non-zero on both axes
\* the box of calculate_feature_bounds strictly contains the feature's own
\* bounding box on both axes.
C24_PaddedBoxStrictlyContains ==
    (/\ call.name = "bounds"
     /\ call.feature \in TinyFeatures
     /\ LatExtent(call.feature) # 0
     /\ LonExtent(call.feature) # 0)
        => StrictlyInside(OwnBox(call.feature), call.bounds[1])

\* C24 amended: for every feature with a coordinate the box of
\* calculate_feature_bounds contains the feature's own bounding box, and
\* contains it strictly on both axes when the extent on each axis is zero
\* or at least 6 units in the last place of the coordinates; for a smaller
\* non-zero extent a corner of the box can equal the feature's own.
C24_PaddedBoxContains ==
    (call.name = "bounds" /\ call.feature \in TinyFeatures)
        => /\ call.bounds # None
           /\ Inside(OwnBox(call.feature), call.bounds[1])
           /\ (/\ LatExtent(call.feature) \in {0} \cup (6..MaxUlps)
               /\ LonExtent(call.feature) \in {0} \cup (6..MaxUlps))
                => StrictlyInside(OwnBox(call.feature), call.bounds[1])

\* a feature 6 ulps across on both axes got a box one ulp wider on each side
C24_Witness ==
    /\ call.name = "bounds"
    /\ call.feature = Feature("Tiny", "wildfire", Polygon(<<<<<<0, 0>>, <<6, 6>>>>>>))
    /\ call.bounds = Some(<<<<Corner(0, -1), Corner(0, -1)>>, <<Corner(0, 7), Corner(0, 7)>>>>)

(***************************************************************************)
(* The shape of the viewport state (SpecOps).                              *)
(***************************************************************************)
\* C26: in every viewport state reachable by initialisation, pan/zoom
\* reports, feature clicks, consumption of the pending zoom and resets, a
\* pending zoom has bounds and bounds have a focused feature.
C26_PendingHasBoundsHasFeature ==
    /\ map_state.zoom_to_feature => map_state.bounds # None
    /\ map_state.bounds # None => map_state.last_clicked_feature # None

\* the pending zoom to Fire1 was consumed: the flag is down, the bounds and
\* the focused feature stay
C26_Witness ==
    /\ op.name = "fit"
    /\ op.before.zoom_to_feature
    /\ ~map_state.zoom_to_feature
    /\ map_state.bounds = calculate_feature_bounds(Fire1)
    /\ map_state.last_clicked_feature = Some([name |-> "Fire1", type |-> "wildfire"])

(***************************************************************************)
(* From a resolved click to the fit (Spec).                                *)
(***************************************************************************)
\* C27: every click that resolves to a feature is followed in the very
\* next render cycle by a fit to the padded bounds of that feature: the run
\* that resolves the click ends with the flag set and the feature's bounds
\* stored and requests the next run, and the fit decision of that run fits
\* these bounds; nothing clears the flag or the bounds in between.
C27_ResolvedClickIsFitted ==
    [][/\ (HandleStep /\ clicked' # None)
            => /\ pc' = "run"
               /\ event' = "rerun"
               /\ map_state'.zoom_to_feature
               /\ map_state'.bounds # None
               /\ map_state'.bounds = calculate_feature_bounds(clicked'[1][1])
       /\ (RenderStep /\ event = "rerun" /\ clicked # None)
            => /\ map_state.zoom_to_feature
               /\ map_state.bounds = calculate_feature_bounds(clicked[1][1])
               /\ fit' = Some([target |-> "feature",
                               box |-> calculate_feature_bounds(clicked[1][1])[1]])]_vars

\* the run after a click on Flood1 fitted the padded bounds of Flood1 and
\* lowered the flag
C27_Witness ==
    /\ pc = "map"
    /\ event = "rerun"
    /\ clicked # None
    /\ clicked[1][1] = Flood1
    /\ ~map_state.zoom_to_feature
    /\ fit = Some([target |-> "feature", box |-> calculate_feature_bounds(Flood1)[1]])

(***************************************************************************)
(* The render loop after one click, with a map component that reports its  *)
(* last clicked object in every run.  A run that was started is carried    *)
(* out to its end by Streamlit, and st.rerun() starts the next one: both   *)
(* halves of a run are weakly fair; the user is not.                       *)
(***************************************************************************)
\* what st_folium returns when the component keeps reporting loc
StickyChoices(ev, loc) ==
    {md \in MapDataChoices(ev, loc) :
        loc # None => md.truthy /\ md.last_object_clicked = loc}

\* the widget values the loop is run with: the defaults, the municipalities
\* or the incidents filtered out, and nothing left to click
QuiesceInputs ==
    FitInputs
    \cup {[DefaultInputs(b) EXCEPT !.muni_filtered = <<>>] : b \in BOOLEAN}
    \cup {[DefaultInputs(b) EXCEPT !.wf_features = <<>>, !.fl_features = <<>>] :
             b \in BOOLEAN}

InitQuiesce ==
    /\ map_state = initialize_map_state
    /\ pc = "run"
    /\ event = "load"
    /\ last_object_clicked = None
    /\ inputs \in QuiesceInputs
    /\ fit = None
    /\ map_data = NoMapData
    /\ clicked = None
    /\ before_click = initialize_map_state
    /\ HomeUnused

\* the rest of a run, lines 641-669
HandleMapSticky ==
    /\ pc = "map"
    /\ \E md \in StickyChoices(event, last_object_clicked) :
         LET h == HandleInteraction(map_state, md, inputs) IN
         /\ map_data' = md
         /\ map_state' = h.ms
         /\ before_click' = h.before_click
         /\ clicked' = h.found
         /\ pc' = IF h.rerun THEN "run" ELSE "idle"
         /\ event' = IF h.rerun THEN "rerun" ELSE event
    /\ UNCHANGED <<last_object_clicked, inputs, fit>>
    /\ HomeUnchanged

\* the one click of the user
UserClickOnce ==
    /\ last_object_clicked = None
    /\ UserClick

NextQuiesce ==
    \/ Render
    \/ HandleMapSticky
    \/ UserClickOnce

\* the two halves of a run as steps of pc: Render is the only action that
\* leaves pc = "run" and HandleMapSticky the only one that leaves pc = "map",
\* and both are enabled wherever pc has that value
StartOfRun == pc = "run" /\ pc' = "map"
EndOfRun == pc = "map" /\ pc' \in {"run", "idle"}

SpecQuiesce ==
    /\ InitQuiesce
    /\ [][NextQuiesce]_vars
    /\ WF_pc(StartOfRun)
    /\ WF_pc(EndOfRun)

\* C28: after one user click on a feature, finitely many render cycles
\* without further user input lead to a cycle that requests no re-render,
\* also when the map component keeps reporting the same last clicked
\* object in each of these cycles.
C28_RenderLoopQuiesces == (clicked # None) ~> (pc = "idle")

(***************************************************************************)
(* The session after any sequence of uploads and resets (SpecUpload).      *)
(***************************************************************************)
DistinctSignatures(features) ==
    \A i, j \in 1..Len(features) :
        Signature(features[i]) = Signature(features[j]) => i = j

\* the features of the collection the parser made of an uploaded file
Incoming(file) == parse_incidents_data(file.data).processed_data.features

\* the incoming features whose signature is neither among the existing
\* features nor carried by an earlier incoming feature
FirstOfSignature(existing, incoming) ==
    {i \in 1..Len(incoming) :
        /\ \A k \in 1..Len(existing) : Signature(existing[k]) # Signature(incoming[i])
        /\ \A k \in 1..(i - 1) : Signature(incoming[k]) # Signature(incoming[i])}

\* C29: merge_incidents_data suppresses duplicates inside one upload too:
\* of incoming features with one signature only the first is appended and
\* the others are counted as duplicates, so the stored features, whose
\* signatures are pairwise distinct at the start, have pairwise distinct
\* signatures after any sequence of uploads.
C29_SignaturesStayDistinct ==
    /\ DistinctSignatures(incidents_data.features)
    /\ (upload.handled /\ upload.outcome = "merged")
         => LET existing == upload.before.incidents_data.features
                incoming == Incoming(upload.file)
                firsts == FirstOfSignature(existing, incoming)
            IN /\ DistinctSignatures(existing)
               /\ upload.new_count = Cardinality(firsts)
               /\ upload.dupe_count = Len(incoming) - Cardinality(firsts)
               /\ Len(incidents_data.features) = Len(existing) + Cardinality(firsts)

\* floods.geojson, which holds Flood1 twice, was merged into the default
\* data: one feature added, one duplicate
C29_Witness ==
    /\ upload.handled
    /\ upload.file.name = "floods.geojson"
    /\ upload.before.incidents_data = DefaultIncidents
    /\ upload.new_count = 1
    /\ upload.dupe_count = 1
    /\ incidents_data = FeatureCollection(<<Fire1, Flood1>>)

\* C30: after any sequence of uploads, valid or rejected, and resets,
\* incidents_source is "default" exactly when no upload_history is stored,
\* and when it is "merged" the upload_history is non-empty, so that the
\* home page's read of its last entry is defined.
C30_SourceMatchesHistory ==
    /\ incidents_source \in {"default", "merged"}
    /\ incidents_source = "default" <=> upload_history = None
    /\ incidents_source = "merged"
         => upload_history # None /\ Len(upload_history[1]) >= 1
    /\ (incidents_source # "default" /\ upload_history # None)
         => Len(upload_history[1]) \in DOMAIN upload_history[1]

\* a file that cannot be decoded was handled after two merged uploads
C30_Witness ==
    /\ upload.handled
    /\ upload.outcome = "decode_error"
    /\ incidents_source = "merged"
    /\ upload_history # None
    /\ Len(upload_history[1]) = 2

====
